---- MODULE Spec2Model ----
(***************************************************************************)
(* Verification model of flutter-tui-tools.                                *)
(*                                                                         *)
(* The module holds several specifications over one set of variables:      *)
(*   SpecRpc     the VM-service driver task (vm_service.rs, driver_loop)   *)
(*               with its callers, its peer and its event consumer;        *)
(*   SpecUnwrap  the extension-response unwrapping of the two inspector    *)
(*               methods (vm_service.rs), a pure function;                 *)
(*   SpecDaemon  the process driver (flutter_daemon.rs, run) with the task *)
(*               that takes the URI (main.rs);                             *)
(*   SpecDebug   the VM event loop and the main loop's debug-event step    *)
(*               (main.rs);                                                *)
(*   SpecSelect  isolate selection: the VM task's selection and refresh    *)
(*               branches, the poll-then-fetch subtasks, and the main      *)
(*               loop's isolate, log and quit steps (main.rs);             *)
(*   SpecDebounce the watcher bridge and the main loop's debounced         *)
(*               auto-reload (main.rs);                                    *)
(*   SpecTree    the widget tree's visible view as the view-model counts   *)
(*               it (app_state.rs) and as the renderer flattens it         *)
(*               (ui/tree.rs), pure functions;                             *)
(*   SpecNav     the view-model's tree navigation and refresh              *)
(*               (app_state.rs) with the key and mouse handlers that call  *)
(*               them (main.rs);                                           *)
(*   SpecFocus   the focus cycle and the isolate-selection modal           *)
(*               (app_state.rs, main.rs);                                  *)
(*   SpecBreak   the breakpoint toggle and the peer's breakpoints          *)
(*               (main.rs, vm_service.rs).                                 *)
(* Each specification moves the variables of its own part and leaves the   *)
(* others at their initial values.                                         *)
(***************************************************************************)
EXTENDS Integers, Sequences, FiniteSets, TLC

\* ------------------------------------------------------------------ bounds
\* Number of send_request invocations over the connection's lifetime.
MaxCalls == 2
\* Number of read_line results of the child's stdout.
MaxLines == 3
\* Number of commands the main loop sends to the child.
MaxCmds == 2
\* Capacity of the command channel in the model; the source uses 10
\* (main.rs:66).
CmdCap == 2
\* Number of key events the main loop handles.
MaxKeys == 2
\* Capacity of the debug-event channel in the model; the source uses 10
\* (main.rs:70).
DebugCap == 1
\* Number of items the driver reads from the WebSocket.
MaxFrames == 3
\* Capacity of the event channel in the model; the source uses 100
\* (vm_service.rs:78), scaled down so that the full channel is reached.
EventCap == 1

\* Number of poll-then-fetch subtasks the VM task spawns.
MaxSubtasks == 1
\* Number of refresh pulses the VM task consumes.
MaxRefresh == 1
\* Number of log entries with a reload marker the main loop consumes.
MaxLogs == 2
\* Last instant of the clock, in ticks of 100 ms.
MaxTime == 12
\* Number of pulses the filesystem watcher emits.
MaxPulses == 3
\* Number of `a` key presses.
MaxToggles == 2
\* Largest number of children of a tree node.
MaxKids == 2
\* Largest scroll offset the mouse wheel reaches.
MaxScroll == 3
\* Largest distance move_selection is asked to move.
MaxDelta == 3
\* Number of rows of the tree pane.
MaxRows == 3
\* Length of the search query typed.
MaxQuery == 2
\* Number of presses of the key `b`.
MaxBpKeys == 4
\* Width of the tree pane, in columns.
MaxWidth == 16
\* Columns the tree is scrolled to the right by hand.
MaxHScroll == 3
\* Number of refresh pulses the VM task consumes in SpecHandshake.
MaxHandshakeRefresh == 3
\* Number of poll-then-fetch subtasks spawned in SpecRace.
MaxRaceSubtasks == 2

\* --------------------------------------------------------------- constants
\* mpsc::channel(32) of request messages.
ReqChanCap == 32
\* mpsc::channel(1) of the URI.
UriCap == 1
\* mpsc::channel(1) of isolate lists, of selections, of trees, of refresh
\* pulses and of watcher pulses.
IsolatesCap == 1
SelectedCap == 1
TreeCap == 1
RefreshCap == 1
WatchCap == 1
\* mpsc::channel(1) of details requests and of details.
DetailsReqCap == 1
DetailsCap == 1
\* Duration::from_millis(500), in ticks of 100 ms.
DebounceTicks == 5

VARIABLES
    \* ---- VM-service transport (vm_service.rs)
    callState,          \* per send_request invocation: what its caller sees
    reqChan,            \* rx_request: calls queued for the driver
    request_id,         \* driver_loop's counter
    pending_requests,   \* driver_loop's map id -> waiting call
    driverPc,           \* "select", "sendEvent" (parked in tx_event.send) or "done"
    heldEvent,          \* the event the parked driver is sending
    eventChan,          \* the event channel's buffer
    eventRxOpen,        \* the consumer still holds rx_event
    clientsOpen,        \* some VmServiceClient handle (a tx_request) is alive
    wsEnded,            \* ws_stream.next() has returned None
    framesRead,         \* number of items read from the socket
    \* ---- history of the transport (observations, not program state)
    sentIds,            \* ids the driver assigned, in the order taken
    idOf,               \* the id assigned to each call (0: none yet)
    deliveries,         \* completions sent on each call's oneshot
    answerFrame,        \* the response frame that completed each call
    notifyRead,         \* the frames with method streamNotify read, in order
    received,           \* events the consumer received, in order
    sockEvent,          \* the last socket failure the driver met
    \* ---- extension-response unwrapping (vm_service.rs)
    unwrapResponse,     \* the value send_request returned to the method
    unwrapMethod,       \* the inspector method that ran on it, or "none"
    unwrapFrom,         \* which value went to the decoder: "result", "response"
    unwrapNode,         \* what the method returned
    \* ---- process driver (flutter_daemon.rs) and the URI's receiver (main.rs)
    daemonPc,           \* "select", "sendUri" (parked in uri_sender.send) or "done"
    heldUri,            \* the URI the parked driver is sending
    uriChan,            \* the URI channel's buffer
    uriRx,              \* the VM service task: "waiting", "taken" or "dropped"
    gotUri,             \* the URI the VM service task received
    cmdChan,            \* the command channel's buffer
    linesRead,          \* number of read_line results
    cmdsSent,           \* number of commands the main loop has sent
    stdinWritten,       \* commands written to the child's stdin, in order
    uriAccepted,        \* history: the URIs the channel accepted, in order
    \* ---- VM event loop of the VM service task and the main loop (main.rs)
    orchPc,             \* "select", "getStack" (awaiting get_stack) or
                        \* "sendDebug" (parked in tx_debug_event.send)
    orchEvent,          \* the pause event whose stack is being fetched
    heldDebug,          \* the message the parked loop is sending
    debugChan,          \* the debug-event channel's buffer
    debug_state,        \* app_state.debug_state
    stack_trace,        \* app_state.stack_trace
    resumeTasks,        \* spawned resume calls not yet answered
    keysPressed,        \* number of key events handled
    expectedDebug,      \* history: the state the last pause or Resume event asks for
    reflected,          \* history: debug_state has had that value since
    \* ---- isolate selection: VM task, subtasks and main loop (main.rs)
    vmIsolates,         \* vm.isolates of the getVM made at connect time
    selPc,              \* VM task: "select", "sendIsolates" (parked in
                        \* tx_isolates.send) or "ended"
    heldIsolates,       \* the list the parked VM task is sending
    isolatesChan,       \* the isolate-list channel's buffer
    selectedChan,       \* the selection channel's buffer
    refreshChan,        \* the refresh channel's buffer
    treeChan,           \* the tree channel's buffer
    current_isolate_id, \* the VM task's current_isolate_id
    subtasks,           \* the spawned poll-then-fetch subtasks
    refreshes,          \* number of refresh pulses the VM task consumed
    available_isolates, \* app_state.available_isolates (with the list's origin)
    show_isolate_selection,  \* app_state.show_isolate_selection
    selected_isolate_index,  \* app_state.selected_isolate_index
    mainPc,             \* main loop: "loop", "sendSelected" (parked in
                        \* tx_selected_isolate.send), "done"
    heldSelected,       \* the selection the parked main loop is sending
    connection_status,  \* app_state.connection_status
    logMatches,         \* history: log entries consumed that carry a reload marker
    logPulses,          \* history: refresh pulses the channel took from the log pump
    \* ---- watcher bridge and debounce (main.rs)
    now,                \* the clock, in ticks of 100 ms
    bridgePending,      \* pulses the bridge task has still to send; each
                        \* carries a history tag: does it start a burst
    watchChan,          \* the watcher channel's buffer
    debounce_deadline,  \* main's debounce_deadline
    auto_reload,        \* app_state.auto_reload
    pulsesEmitted,      \* number of pulses the watcher emitted
    toggles,            \* number of `a` key presses
    lastPulseAt,        \* history: the instant of the last pulse
    burstReloads,       \* history: `r` commands the debounce sent since
                        \* the loop took the first pulse of the burst
    burstMissed,        \* history: since then the deadline elapsed with
                        \* the flag off
    \* ---- the widget tree's visible view (app_state.rs, ui/tree.rs)
    root_node,          \* app_state.root_node
    expanded_ids,       \* app_state.expanded_ids
    selected_index,     \* app_state.selected_index
    treeLines,          \* the lines the last draw rendered, each line
                        \* named by the position of its node in the tree
    treeCount,          \* what visible_count returned last
    treeNode,           \* what get_selected_node returned last: the
                        \* position of a node, or NoNode
    \* ---- tree navigation, refresh and search (app_state.rs)
    tree_scroll_offset, \* app_state.tree_scroll_offset
    tree_horizontal_scroll, \* app_state.tree_horizontal_scroll
    selected_node_details,  \* app_state.selected_node_details: the id
                        \* whose details are cached, or Absent
    search_query,       \* app_state.search_query, a sequence of characters
    search_results,     \* app_state.search_results
    current_match_index,    \* app_state.current_match_index
    lastOp,             \* history: the last operation on the view-model
    \* ---- focus (app_state.rs, main.rs)
    focus,              \* app_state.focus
    lastKey,            \* history: the last key or click handled
    \* ---- breakpoints (main.rs, vm_service.rs)
    breakpoints,        \* app_state.breakpoints, keys "path:line"
    open_file_path,     \* app_state.open_file_path
    source_selected_line,   \* app_state.source_selected_line
    vm_service_client,  \* app_state.vm_service_client is Some
    addRequests,        \* addBreakpointWithScriptUri calls in flight
    peerBreakpoints,    \* breakpoints installed in the peer
    bpKeys,             \* number of `b` key presses
    \* ---- details of the selected node (main.rs)
    detailsReqChan,     \* the details-request channel's buffer: object ids
    detailsChan,        \* the details channel's buffer: each subtree named
                        \* by the id it was fetched for
    heldDetails         \* the details the parked VM task is sending

rpcVars == <<callState, reqChan, request_id, pending_requests, driverPc,
             heldEvent, eventChan, eventRxOpen, clientsOpen, wsEnded,
             framesRead, sentIds, idOf, deliveries, answerFrame, notifyRead,
             received, sockEvent>>

unwrapVars == <<unwrapResponse, unwrapMethod, unwrapFrom, unwrapNode>>

daemonVars == <<daemonPc, heldUri, uriChan, uriRx, gotUri, cmdChan,
                linesRead, cmdsSent, stdinWritten, uriAccepted>>

debugVars == <<orchPc, orchEvent, heldDebug, debugChan, debug_state,
               stack_trace, resumeTasks, keysPressed, expectedDebug, reflected>>

\* The transport's variables apart from the event channel, which the VM
\* event loop reads.
rpcBesidesEvents == <<callState, reqChan, request_id, pending_requests,
                      driverPc, heldEvent, eventRxOpen, clientsOpen, wsEnded,
                      sentIds, idOf, deliveries, answerFrame, notifyRead,
                      received, sockEvent>>

selectVars == <<vmIsolates, selPc, heldIsolates, isolatesChan, selectedChan,
                refreshChan, treeChan, current_isolate_id, subtasks,
                refreshes, available_isolates, show_isolate_selection,
                selected_isolate_index, mainPc, heldSelected, connection_status,
                logMatches, logPulses>>

debounceVars == <<now, bridgePending, watchChan, debounce_deadline,
                  auto_reload, pulsesEmitted, toggles, lastPulseAt,
                  burstReloads, burstMissed>>

treeVars == <<root_node, expanded_ids, selected_index, treeLines, treeCount,
              treeNode>>

\* The process driver's variables apart from the command channel, which the
\* main loop writes.
daemonBesidesCommands == <<daemonPc, heldUri, uriChan, uriRx, gotUri,
                           linesRead, cmdsSent, stdinWritten, uriAccepted>>

navVars == <<tree_scroll_offset, tree_horizontal_scroll,
             selected_node_details, search_query, search_results,
             current_match_index, lastOp>>

focusVars == <<focus, lastKey>>

breakVars == <<breakpoints, open_file_path, source_selected_line,
               vm_service_client, addRequests, peerBreakpoints, bpKeys>>

viewVars == <<navVars, focusVars, breakVars>>

detailsVars == <<detailsReqChan, detailsChan, heldDetails>>

vars == <<rpcVars, unwrapVars, daemonVars, debugVars, selectVars,
          debounceVars, treeVars, viewVars, detailsVars>>

nonRpcVars == <<unwrapVars, daemonVars, debugVars, selectVars, debounceVars,
                treeVars,
    viewVars, detailsVars>>
nonUnwrapVars == <<rpcVars, daemonVars, debugVars, selectVars, debounceVars,
                   treeVars,
    viewVars, detailsVars>>
nonDaemonVars == <<rpcVars, unwrapVars, debugVars, selectVars, debounceVars,
                   treeVars,
    viewVars, detailsVars>>
nonDebugVars == <<rpcBesidesEvents, unwrapVars, daemonVars, selectVars,
                  debounceVars, treeVars,
    viewVars, detailsVars>>
nonSelectVars == <<rpcVars, unwrapVars, daemonBesidesCommands, debugVars,
                   debounceVars, treeVars,
    viewVars, detailsVars>>
nonDebounceVars == <<rpcVars, unwrapVars, debugVars, selectVars, treeVars,
    viewVars, detailsVars>>
nonTreeVars == <<rpcVars, unwrapVars, daemonVars, debugVars, selectVars,
                 debounceVars,
    viewVars, detailsVars>>

\* Everything but the tree pane, the focus and the breakpoints.
nonViewVars == <<rpcVars, unwrapVars, daemonVars, debugVars, selectVars,
                 debounceVars, detailsVars>>

\* Initial values of the parts a specification leaves alone.
UnwrapIdle ==
    /\ unwrapResponse = "none"
    /\ unwrapMethod = "none"
    /\ unwrapFrom = "none"
    /\ unwrapNode = "none"

Absent == "absent"

NoUri == [scheme |-> Absent, rest |-> Absent]

\* The process driver before its first read; the URI channel is empty and
\* the VM service task waits on it.
DaemonInit ==
    /\ daemonPc = "select"
    /\ heldUri = NoUri
    /\ uriChan = <<>>
    /\ uriRx = "waiting"
    /\ gotUri = NoUri
    /\ cmdChan = <<>>
    /\ linesRead = 0
    /\ cmdsSent = 0
    /\ stdinWritten = <<>>
    /\ uriAccepted = <<>>

NoEvent == [event_kind |-> Absent, isolate_id |-> Absent]

\* DebugState: Running or Paused { isolate_id, reason }.
Running == [tag |-> "Running", isolate_id |-> Absent, reason |-> Absent]
Paused(isolate_id, reason) ==
    [tag |-> "Paused", isolate_id |-> isolate_id, reason |-> reason]
\* The view-model starts in Running.
InitialDebugState == Running

NoDebugMessage == [state |-> Running, stack |-> Absent, cause |-> Absent]

\* The VM event loop at its select!, nothing published, the view-model new.
DebugInit ==
    /\ orchPc = "select"
    /\ orchEvent = NoEvent
    /\ heldDebug = NoDebugMessage
    /\ debugChan = <<>>
    /\ debug_state = InitialDebugState
    /\ stack_trace = Absent
    /\ resumeTasks = 0
    /\ keysPressed = 0
    /\ expectedDebug = InitialDebugState
    /\ reflected = TRUE

\* An isolate list on its way to the UI, with what published it: "connect"
\* (main.rs:172), "refresh" (271) or "failure" (244).  The origin is an
\* annotation, it is not in the program's message.
NoList == [isolates |-> <<>>, origin |-> Absent]
\* A selection on its way to the VM task, with the origin of the list it
\* was taken from and what sent it: "auto" (main.rs:306) or "enter" (368).
NoSelection == [id |-> Absent, from |-> Absent, by |-> Absent]
\* A subtask that has returned.
DoneSubtask ==
    [pc |-> "done", isolate |-> Absent, slept |-> FALSE, advertised |-> FALSE]
\* A subtask slot nothing was spawned into.
UnusedSubtask ==
    [pc |-> "unused", isolate |-> Absent, slept |-> FALSE, advertised |-> FALSE]

\* The VM task at `pc` holding the connect-time list `isolates`, with
\* `published` in the isolate-list channel, and the main loop before its
\* first iteration.
SelectStartSlots(isolates, pc, published, slots) ==
    /\ vmIsolates = isolates
    /\ selPc = pc
    /\ heldIsolates = NoList
    /\ isolatesChan = published
    /\ selectedChan = <<>>
    /\ refreshChan = <<>>
    /\ treeChan = <<>>
    /\ current_isolate_id = Absent
    /\ subtasks = [s \in 1..slots |-> UnusedSubtask]
    /\ refreshes = 0
    /\ available_isolates = NoList
    /\ show_isolate_selection = FALSE
    /\ selected_isolate_index = 0
    /\ mainPc = "loop"
    /\ heldSelected = NoSelection
    /\ connection_status = "Connecting..."
    /\ logMatches = 0
    /\ logPulses = 0

SelectStart(isolates, pc, published) ==
    SelectStartSlots(isolates, pc, published, MaxSubtasks)

\* The VM task before it has a list to publish.
SelectIdle == SelectStart(<<>>, "select", <<>>)

\* `debounce_deadline: Option<Instant>`: None.
NoDeadline == -1

\* The watcher silent, the deadline disarmed, auto-reload as `flag`.
DebounceStart(flag) ==
    /\ now = 0
    /\ bridgePending = <<>>
    /\ watchChan = <<>>
    /\ debounce_deadline = NoDeadline
    /\ auto_reload = flag
    /\ pulsesEmitted = 0
    /\ toggles = 0
    /\ lastPulseAt = 0
    /\ burstReloads = 0
    /\ burstMissed = FALSE

DebounceIdle == DebounceStart(FALSE)

\* Option<&RemoteDiagnosticsNode>: None.  A node is referred to by its
\* position, the root's being <<0>>.
NoNode == <<>>

\* Nothing drawn, counted or resolved yet.
TreeNotViewed ==
    /\ treeLines = <<>>
    /\ treeCount = 0
    /\ treeNode = NoNode

\* `root_node: Option<RemoteDiagnosticsNode>`: None.
NoRoot == [none |-> TRUE]

\* No tree loaded.
TreeIdle ==
    /\ root_node = NoRoot
    /\ expanded_ids = {}
    /\ selected_index = 0
    /\ TreeNotViewed

\* AppState::new for the tree pane: scrolled to the top, no details, no
\* search.
NavIdle ==
    /\ tree_scroll_offset = 0
    /\ tree_horizontal_scroll = 0
    /\ selected_node_details = Absent
    /\ search_query = <<>>
    /\ search_results = <<>>
    /\ current_match_index = 0
    /\ lastOp = "none"

\* AppState::new: focus on the tree.
FocusIdle ==
    /\ focus = "Tree"
    /\ lastKey = "none"

\* No file open, no line selected (source_selected_line holds the line
\* number, line_idx + 1, and 0 for None), no breakpoint, no client yet.
BreakIdle ==
    /\ breakpoints = {}
    /\ open_file_path = Absent
    /\ source_selected_line = 0
    /\ vm_service_client = FALSE
    /\ addRequests = <<>>
    /\ peerBreakpoints = {}
    /\ bpKeys = 0

\* No details asked for, none on their way.
DetailsIdle ==
    /\ detailsReqChan = <<>>
    /\ detailsChan = <<>>
    /\ heldDetails = Absent

ViewIdle == NavIdle /\ FocusIdle /\ BreakIdle /\ DetailsIdle

\* ====================================================================
\* VM-service transport
\* ====================================================================

Calls == 1..MaxCalls

\* Values a peer puts in a `result` or an `error` field.
ResultVals == {"r1", "r2"}
ErrorVals == {"e1"}
\* The whole response object, as the fallback hands it to the caller.
WholeFrame == "wholeFrame"

\* The `params` of streamNotify frames, as far as the VmEvent built from
\* them is read: params.event.kind and params.event.isolate.id (optional).
\* NoEvent marks a frame without params.
PauseFamily == {"PauseStart", "PauseBreakpoint", "PauseException",
                "PauseInterrupted", "PauseExit"}
EventKinds == PauseFamily \cup {"Resume", "IsolateReload"}
IsolateIds == {"isolates/1"}
VmEvents == [event_kind : EventKinds, isolate_id : IsolateIds \cup {Absent}]
\* The events the transport's peer sends in SpecRpc (two, so that order shows).
RpcEvents == {e \in VmEvents : e.event_kind \in {"PauseBreakpoint", "Resume"}
                                 /\ e.isolate_id # Absent}

\* A text frame that parses as JSON, reduced to the members the driver looks
\* at. id = 0 stands for "no numeric id"; ids range over those of the calls
\* and one id that is never assigned. result and error are read only when
\* the id is numeric, params only when it is not.
NoAnswer == [id |-> 0, result |-> Absent, error |-> Absent]
\* The members of a response frame that decide what its call completes with.
Answer(frame) == [id |-> frame.id, result |-> frame.result, error |-> frame.error]

ResponseFrames ==
    [id : 1..(MaxCalls + 1), method : {Absent, "streamNotify"},
     result : ResultVals \cup {Absent}, error : ErrorVals \cup {Absent},
     params : {NoEvent}]

NotifyFrames ==
    [id : {0}, method : {"streamNotify"}, result : {Absent}, error : {Absent},
     params : RpcEvents \cup {NoEvent}]

OtherFrames ==
    [id : {0}, method : {Absent, "other"}, result : {Absent}, error : {Absent},
     params : {NoEvent}]

TextFrames == ResponseFrames \cup NotifyFrames \cup OtherFrames

\* What the history keeps of a frame whose method is streamNotify.
Seen(frame) == [numericId |-> frame.id # 0, params |-> frame.params]

\* What a caller sees of one send_request invocation.
NewCall == [st |-> "new", val |-> Absent, why |-> Absent]
WaitingCall == [st |-> "waiting", val |-> Absent, why |-> Absent]
OkCall(v) == [st |-> "ok", val |-> v, why |-> Absent]
ErrCall(w) == [st |-> "err", val |-> Absent, why |-> w]

Outstanding == {c \in Calls : callState[c].st = "waiting"}

EmptyMap == [i \in {} |-> 0]
MapInsert(m, k, v) == [i \in DOMAIN m \cup {k} |-> IF i = k THEN v ELSE m[i]]
MapRemove(m, k) == [i \in DOMAIN m \ {k} |-> m[i]]

\* request_id += 1 (u64; no run of the model comes near its width).
NextRequestIdNarrow(cur) == (cur + 1) % 2
NextRequestId(cur) == cur + 1

RpcInit ==
    /\ callState = [c \in Calls |-> NewCall]
    /\ reqChan = <<>>
    /\ request_id = 0
    /\ pending_requests = EmptyMap
    /\ driverPc = "select"
    /\ heldEvent = NoEvent
    /\ eventChan = <<>>
    /\ eventRxOpen = TRUE
    /\ clientsOpen = TRUE
    /\ wsEnded = FALSE
    /\ framesRead = 0
    /\ sentIds = <<>>
    /\ idOf = [c \in Calls |-> 0]
    /\ deliveries = [c \in Calls |-> 0]
    /\ answerFrame = [c \in Calls |-> NoAnswer]
    /\ notifyRead = <<>>
    /\ received = <<>>
    /\ sockEvent = "none"

\* send_request: queue the message for the driver and await the oneshot.
\* With the driver gone the channel is closed and the send fails. Calls are
\* numbered in the order their messages enter the channel.
send_request(c) ==
    /\ callState[c].st = "new"
    /\ IF c = 1 THEN TRUE ELSE callState[c - 1].st # "new"
    /\ clientsOpen
    /\ IF driverPc = "done"
       THEN /\ callState' = [callState EXCEPT ![c] = ErrCall("driverGone")]
            /\ UNCHANGED reqChan
       ELSE /\ Len(reqChan) < ReqChanCap
            /\ callState' = [callState EXCEPT ![c] = WaitingCall]
            /\ reqChan' = Append(reqChan, c)
    /\ UNCHANGED <<request_id, pending_requests, driverPc, heldEvent,
                   eventChan, eventRxOpen, clientsOpen, wsEnded, framesRead,
                   sentIds, idOf, deliveries, answerFrame, notifyRead,
                   received, sockEvent>>
    /\ UNCHANGED nonRpcVars

\* Every VmServiceClient handle is dropped; a call in progress borrows its
\* handle, so this happens only between calls.
DropClients ==
    /\ clientsOpen
    /\ Outstanding = {}
    /\ clientsOpen' = FALSE
    /\ UNCHANGED <<callState, reqChan, request_id, pending_requests, driverPc,
                   heldEvent, eventChan, eventRxOpen, wsEnded, framesRead,
                   sentIds, idOf, deliveries, answerFrame, notifyRead,
                   received, sockEvent>>
    /\ UNCHANGED nonRpcVars

\* select! branch 1: a request message. `sendOk` is the outcome of
\* ws_stream.send.
DriverRequest(sendOk) ==
    /\ driverPc = "select"
    /\ reqChan # <<>>
    /\ LET c == Head(reqChan)
           id == NextRequestId(request_id)
       IN /\ request_id' = id
          /\ reqChan' = Tail(reqChan)
          /\ sentIds' = Append(sentIds, id)
          /\ idOf' = [idOf EXCEPT ![c] = id]
          /\ IF sendOk
             THEN /\ pending_requests' = MapInsert(pending_requests, id, c)
                  /\ UNCHANGED <<callState, deliveries, sockEvent>>
             ELSE /\ pending_requests' =
                        MapRemove(MapInsert(pending_requests, id, c), id)
                  /\ callState' = [callState EXCEPT ![c] = ErrCall("sendFailed")]
                  /\ deliveries' = [deliveries EXCEPT ![c] = @ + 1]
                  /\ sockEvent' = "sendFailed"
    /\ UNCHANGED <<driverPc, heldEvent, eventChan, eventRxOpen, clientsOpen,
                   wsEnded, framesRead, answerFrame, notifyRead, received>>
    /\ UNCHANGED nonRpcVars

\* What the driver sends on the oneshot of the call a response frame answers.
Completion(frame) ==
    IF frame.result # Absent THEN OkCall(frame.result)
    ELSE IF frame.error # Absent THEN ErrCall(frame.error)
    ELSE OkCall(WholeFrame)

\* pending_requests.remove(&id)
PendingAfterResponseKept(m, id) == m
PendingAfterResponse(m, id) == MapRemove(m, id)

CanRead == driverPc = "select" /\ ~wsEnded /\ framesRead < MaxFrames

\* select! branch 2, a text frame with a numeric id: a response.
DriverResponse(frame) ==
    /\ CanRead
    /\ frame \in ResponseFrames
    /\ framesRead' = framesRead + 1
    /\ IF frame.id \in DOMAIN pending_requests
       THEN LET c == pending_requests[frame.id]
            IN /\ pending_requests' = PendingAfterResponse(pending_requests, frame.id)
               /\ callState' = [callState EXCEPT ![c] = Completion(frame)]
               /\ deliveries' = [deliveries EXCEPT ![c] = @ + 1]
               /\ answerFrame' = [answerFrame EXCEPT ![c] = Answer(frame)]
       ELSE UNCHANGED <<pending_requests, callState, deliveries, answerFrame>>
    /\ notifyRead' = IF frame.method = "streamNotify"
                     THEN Append(notifyRead, Seen(frame)) ELSE notifyRead
    /\ UNCHANGED <<reqChan, request_id, driverPc, heldEvent, eventChan,
                   eventRxOpen, clientsOpen, wsEnded, sentIds, idOf, received,
                   sockEvent>>
    /\ UNCHANGED nonRpcVars

\* tx_event.send(event).await: the event is buffered, or discarded when the
\* receiver is gone, or the driver parks until there is room.
EventSendLossy(e) ==
    /\ driverPc' = "select"
    /\ heldEvent' = NoEvent
    /\ eventChan' = IF eventRxOpen /\ Len(eventChan) < EventCap
                    THEN Append(eventChan, e) ELSE eventChan
EventSend(e) ==
    IF ~eventRxOpen
    THEN /\ driverPc' = "select"
         /\ heldEvent' = NoEvent
         /\ UNCHANGED eventChan
    ELSE IF Len(eventChan) < EventCap
    THEN /\ driverPc' = "select"
         /\ heldEvent' = NoEvent
         /\ eventChan' = Append(eventChan, e)
    ELSE /\ driverPc' = "sendEvent"
         /\ heldEvent' = e
         /\ UNCHANGED eventChan

\* select! branch 2, a text frame without a numeric id: an event when its
\* method is streamNotify and it has params, nothing otherwise.
DriverNotify(frame) ==
    /\ CanRead
    /\ frame \in NotifyFrames \cup OtherFrames
    /\ framesRead' = framesRead + 1
    /\ notifyRead' = IF frame.method = "streamNotify"
                     THEN Append(notifyRead, Seen(frame)) ELSE notifyRead
    /\ IF frame.method = "streamNotify" /\ frame.params # NoEvent
       THEN EventSend(frame.params)
       ELSE UNCHANGED <<driverPc, heldEvent, eventChan>>
    /\ UNCHANGED <<callState, reqChan, request_id, pending_requests,
                   eventRxOpen, clientsOpen, wsEnded, sentIds, idOf,
                   deliveries, answerFrame, received, sockEvent>>
    /\ UNCHANGED nonRpcVars

\* The parked send completes once the consumer has made room or has gone.
DriverUnpark ==
    /\ driverPc = "sendEvent"
    /\ ~eventRxOpen \/ Len(eventChan) < EventCap
    /\ EventSend(heldEvent)
    /\ UNCHANGED <<callState, reqChan, request_id, pending_requests,
                   eventRxOpen, clientsOpen, wsEnded, framesRead, sentIds,
                   idOf, deliveries, answerFrame, notifyRead, received,
                   sockEvent>>
    /\ UNCHANGED nonRpcVars

\* select! branch 2, text that is not JSON or a message that is neither Text
\* nor Close: nothing happens.
DriverIgnored ==
    /\ CanRead
    /\ framesRead' = framesRead + 1
    /\ UNCHANGED <<callState, reqChan, request_id, pending_requests, driverPc,
                   heldEvent, eventChan, eventRxOpen, clientsOpen, wsEnded,
                   sentIds, idOf, deliveries, answerFrame, notifyRead,
                   received, sockEvent>>
    /\ UNCHANGED nonRpcVars

\* The loop is left: pending_requests and rx_request are dropped, and with
\* them every oneshot sender, so each waiting caller's rx.await fails.
DriverExit ==
    /\ driverPc' = "done"
    /\ pending_requests' = EmptyMap
    /\ reqChan' = <<>>
    /\ callState' = [c \in Calls |->
                       IF callState[c].st = "waiting"
                       THEN ErrCall("driverGone") ELSE callState[c]]

\* select! branch 2, a Close message or a read error: break.
DriverSocketClosed(what) ==
    /\ CanRead
    /\ what \in {"close", "readError"}
    /\ framesRead' = framesRead + 1
    /\ sockEvent' = what
    /\ DriverExit
    /\ UNCHANGED <<request_id, heldEvent, eventChan, eventRxOpen, clientsOpen,
                   wsEnded, sentIds, idOf, deliveries, answerFrame,
                   notifyRead, received>>
    /\ UNCHANGED nonRpcVars

\* select! branch 2, ws_stream.next() returns None: the pattern Some(msg)
\* fails and the branch is disabled; the loop goes on with the other one.
DriverStreamEnd ==
    /\ CanRead
    /\ framesRead' = framesRead + 1
    /\ wsEnded' = TRUE
    /\ sockEvent' = "endOfStream"
    /\ UNCHANGED <<callState, reqChan, request_id, pending_requests, driverPc,
                   heldEvent, eventChan, eventRxOpen, clientsOpen, sentIds,
                   idOf, deliveries, answerFrame, notifyRead, received>>
    /\ UNCHANGED nonRpcVars

\* select! else branch: both patterns failed (the stream has ended and every
\* request sender is gone): break.
DriverElse ==
    /\ driverPc = "select"
    /\ wsEnded
    /\ ~clientsOpen
    /\ reqChan = <<>>
    /\ DriverExit
    /\ UNCHANGED <<request_id, heldEvent, eventChan, eventRxOpen, clientsOpen,
                   wsEnded, framesRead, sentIds, idOf, deliveries, answerFrame,
                   notifyRead, received, sockEvent>>
    /\ UNCHANGED nonRpcVars

\* The single consumer takes the next event from rx_event.
ConsumerRecv ==
    /\ eventRxOpen
    /\ eventChan # <<>>
    /\ received' = Append(received, Head(eventChan))
    /\ eventChan' = Tail(eventChan)
    /\ UNCHANGED <<callState, reqChan, request_id, pending_requests, driverPc,
                   heldEvent, eventRxOpen, clientsOpen, wsEnded, framesRead,
                   sentIds, idOf, deliveries, answerFrame, notifyRead,
                   sockEvent>>
    /\ UNCHANGED nonRpcVars

\* The consumer's task ends and drops rx_event with what it buffers.
ConsumerDrop ==
    /\ eventRxOpen
    /\ eventRxOpen' = FALSE
    /\ eventChan' = <<>>
    /\ UNCHANGED <<callState, reqChan, request_id, pending_requests, driverPc,
                   heldEvent, clientsOpen, wsEnded, framesRead, sentIds, idOf,
                   deliveries, answerFrame, notifyRead, received, sockEvent>>
    /\ UNCHANGED nonRpcVars



RpcCall == \E c \in Calls : send_request(c)
RpcRequest == \E sendOk \in BOOLEAN : DriverRequest(sendOk)
RpcResponse == \E frame \in ResponseFrames : DriverResponse(frame)
RpcNotify == \E frame \in NotifyFrames \cup OtherFrames : DriverNotify(frame)
RpcSocketClosed == \E what \in {"close", "readError"} : DriverSocketClosed(what)

NextRpc ==
    \/ RpcCall
    \/ DropClients
    \/ RpcRequest
    \/ RpcResponse
    \/ RpcNotify
    \/ DriverUnpark
    \/ DriverIgnored
    \/ RpcSocketClosed
    \/ DriverStreamEnd
    \/ DriverElse
    \/ ConsumerRecv
    \/ ConsumerDrop

InitRpc ==
    /\ RpcInit /\ UnwrapIdle /\ DaemonInit /\ DebugInit
    /\ SelectIdle /\ DebounceIdle /\ TreeIdle /\ ViewIdle

SpecRpc == InitRpc /\ [][NextRpc]_vars

\* --------------------------------------------------------------------
\* Claims about the transport
\* --------------------------------------------------------------------

\* C1: over one connection the ids the driver puts on outgoing requests are
\* strictly increasing in the order the requests are taken from the request
\* channel, so none is reused, also after a failed send or an answer.
C1_IdsStrictlyIncreasing ==
    \A i, j \in 1..Len(sentIds) : i < j => sentIds[i] < sentIds[j]

\* An id was assigned after an earlier request failed to send.
C1_Witness ==
    /\ Len(sentIds) >= 2
    /\ \E c \in Calls : callState[c].why = "sendFailed" /\ idOf[c] < request_id

SentAndUnanswered ==
    {c \in Calls : callState[c].st = "waiting" /\ idOf[c] # 0}

\* C2: whatever the interleaving of calls and the arrival order of response
\* frames (duplicates and unknown ids included), a caller is completed only
\* by the frame carrying the id assigned to its own request, at most once,
\* and the pending map holds exactly the ids sent and not yet answered.
C2_ResponseRouting ==
    /\ \A c \in Calls :
          /\ answerFrame[c] # NoAnswer =>
                idOf[c] # 0 /\ answerFrame[c].id = idOf[c]
          /\ callState[c].st = "ok" => answerFrame[c] # NoAnswer
          /\ deliveries[c] <= 1
    /\ DOMAIN pending_requests = {idOf[c] : c \in SentAndUnanswered}
    /\ \A c \in SentAndUnanswered : pending_requests[idOf[c]] = c

\* A later request is answered while an earlier one is still pending.
C2_Witness ==
    \E c, d \in Calls :
        /\ idOf[c] # 0 /\ idOf[c] < idOf[d]
        /\ callState[c].st = "waiting"
        /\ callState[d].st = "ok"

\* C3 (as claimed): whenever the WebSocket errors or closes (read error,
\* Close frame, end of stream, failed send), the driver exits and every call
\* outstanding at that moment completes with an error.
C3_SocketFailureEndsDriver ==
    [][sockEvent' # sockEvent =>
         /\ driverPc' = "done"
         /\ \A c \in Outstanding : callState'[c].st = "err"]_vars

\* C4 (as claimed): a call completes with Ok(v) only when the frame carrying
\* its id has a result member equal to v; a frame with that id and no result
\* member completes it with an error, never with Ok.
C4_OkOnlyFromResult ==
    \A c \in Calls :
        /\ callState[c].st = "ok" =>
              answerFrame[c].result # Absent /\ callState[c].val = answerFrame[c].result
        /\ (answerFrame[c] # NoAnswer /\ answerFrame[c].result = Absent) =>
              callState[c].st = "err"

\* Events on their way to the consumer or with it: received, buffered, held
\* by the parked driver.
InFlight == IF driverPc = "sendEvent" THEN <<heldEvent>> ELSE <<>>
Delivered == received \o eventChan \o InFlight

ParamsOf(frames) == [i \in 1..Len(frames) |-> frames[i].params]
CarriesEvent(f) == ~f.numericId /\ f.params # NoEvent
IsPrefix(s, t) == Len(s) <= Len(t) /\ \A i \in 1..Len(s) : s[i] = t[i]

\* C5 (as claimed): what the consumer receives is, in order and without loss
\* or duplication, the sequence of streamNotify frames the driver read.
C5_EveryNotifyFrameDelivered ==
    eventRxOpen => Delivered = ParamsOf(notifyRead)

\* C5 (amended): what the consumer receives is, in order and without loss or
\* duplication, the sequence of the streamNotify frames read that carry a
\* params member and no numeric id, also when the consumer falls behind and
\* the channel is full (the driver parks in the send and drops nothing).
C5_EventFramesDelivered ==
    /\ IsPrefix(received, ParamsOf(SelectSeq(notifyRead, CarriesEvent)))
    /\ eventRxOpen => Delivered = ParamsOf(SelectSeq(notifyRead, CarriesEvent))

\* The driver is parked on the full channel behind a slow consumer.
C5_Witness ==
    /\ driverPc = "sendEvent"
    /\ eventRxOpen
    /\ Len(eventChan) = EventCap
    /\ Len(SelectSeq(notifyRead, CarriesEvent)) = EventCap + 1

\* ====================================================================
\* Extension-response unwrapping (vm_service.rs)
\* ====================================================================

\* JSON values as far as the two inspector methods and the decoder look at
\* them: an object with its `type`, `description` and `result` members, or a
\* value that is no object. A `type` of "#7" stands for one that is not a
\* string; kind "absent" marks a missing `result` member.
TypeVals == {Absent, "_extensionType", "Widget", "#7"}
DescriptionVals == {Absent, "App", "Other"}

NoMember == [kind |-> "absent", type |-> Absent, description |-> Absent]
NonObjects ==
    [kind : {"null", "string"}, type : {Absent}, description : {Absent}]
\* Payloads: what can sit under `result`.
Payloads ==
    [kind : {"object"}, type : TypeVals, description : DescriptionVals]
        \cup NonObjects
\* Values send_request can return.
Responses ==
    [kind : {"object"}, type : TypeVals, description : DescriptionVals,
     result : Payloads \cup {NoMember}]
        \cup [kind : {"null", "string"}, type : {Absent},
              description : {Absent}, result : {NoMember}]

\* A payload as a full value: it has no `result` member of its own.
AsResponse(p) == [kind |-> p.kind, type |-> p.type,
                  description |-> p.description, result |-> NoMember]
\* The wrapped form of a payload.
Wrap(p) == [kind |-> "object", type |-> "_extensionType",
            description |-> Absent, result |-> p]

\* value.get("type").and_then(|t| t.as_str())
TypeAsStr(v) ==
    IF v.kind = "object" /\ v.type \notin {Absent, "#7"} THEN v.type ELSE Absent

\* serde_json::from_value::<RemoteDiagnosticsNode>: an object decodes to a
\* node of its known members (others, `result` among them, are skipped); a
\* member of the wrong JSON type or a value that is no object is an error.
DecodeError == [ok |-> FALSE, description |-> Absent, node_type |-> Absent]
Decode(v) ==
    IF v.kind # "object" \/ v.type = "#7"
    THEN DecodeError
    ELSE [ok |-> TRUE, description |-> v.description, node_type |-> v.type]

\* The choice of node_json in get_root_widget_summary_tree.
RootTreeNodeJsonAlways(result) ==
    IF result.kind = "object" /\ result.result.kind # "absent"
    THEN [from |-> "result", json |-> result.result]
    ELSE [from |-> "response", json |-> result]
RootTreeNodeJson(result) ==
    IF TypeAsStr(result) = "_extensionType"
    THEN IF result.result.kind # "absent"
         THEN [from |-> "result", json |-> result.result]
         ELSE [from |-> "response", json |-> result]
    ELSE [from |-> "response", json |-> result]

\* The choice of node_json in get_details_subtree.
DetailsNodeJson(result) ==
    IF TypeAsStr(result) = "_extensionType"
    THEN IF result.result.kind # "absent"
         THEN [from |-> "result", json |-> result.result]
         ELSE [from |-> "response", json |-> result]
    ELSE [from |-> "response", json |-> result]

UnwrapInit ==
    /\ unwrapResponse \in Responses
    /\ unwrapMethod = "none"
    /\ unwrapFrom = "none"
    /\ unwrapNode = DecodeError

get_root_widget_summary_tree ==
    /\ unwrapMethod = "none"
    /\ LET choice == RootTreeNodeJson(unwrapResponse)
       IN /\ unwrapFrom' = choice.from
          /\ unwrapNode' = Decode(choice.json)
    /\ unwrapMethod' = "getRootWidgetSummaryTree"
    /\ UNCHANGED <<unwrapResponse, nonUnwrapVars>>

get_details_subtree ==
    /\ unwrapMethod = "none"
    /\ LET choice == DetailsNodeJson(unwrapResponse)
       IN /\ unwrapFrom' = choice.from
          /\ unwrapNode' = Decode(choice.json)
    /\ unwrapMethod' = "getDetailsSubtree"
    /\ UNCHANGED <<unwrapResponse, nonUnwrapVars>>

NextUnwrap ==
    \/ get_root_widget_summary_tree
    \/ get_details_subtree

InitUnwrap ==
    /\ UnwrapInit /\ RpcInit /\ DaemonInit /\ DebugInit
    /\ SelectIdle /\ DebounceIdle /\ TreeIdle /\ ViewIdle

SpecUnwrap == InitUnwrap /\ [][NextUnwrap]_vars

\* The response has the wrapped form: `type` is the string "_extensionType"
\* and `result` exists.
IsWrapped(r) ==
    r.kind = "object" /\ r.type = "_extensionType" /\ r.result.kind # "absent"

\* C6: for both inspector methods and every response value, the node is
\* decoded from response.result if and only if response.type is the string
\* "_extensionType" and response.result exists, and from the response itself
\* otherwise; so a payload decodes to the same node wrapped and unwrapped.
C6_UnwrapRule ==
    unwrapMethod # "none" =>
        /\ unwrapFrom = "result" <=> IsWrapped(unwrapResponse)
        /\ unwrapFrom = "response" <=> ~IsWrapped(unwrapResponse)
        /\ unwrapNode = Decode(IF IsWrapped(unwrapResponse)
                               THEN AsResponse(unwrapResponse.result)
                               ELSE unwrapResponse)
        /\ \A p \in Payloads :
              (unwrapResponse = AsResponse(p) /\ ~IsWrapped(AsResponse(p))) =>
                 unwrapNode = Decode(RootTreeNodeJson(Wrap(p)).json)
                 /\ unwrapNode = Decode(DetailsNodeJson(Wrap(p)).json)

\* A method ran on a wrapped response whose payload is an object.
C6_Witness ==
    /\ unwrapMethod = "getDetailsSubtree"
    /\ IsWrapped(unwrapResponse)
    /\ unwrapResponse.result.kind = "object"
    /\ unwrapNode.ok /\ unwrapNode.description = "App"

\* ====================================================================
\* Process driver (flutter_daemon.rs)
\* ====================================================================

\* Results of read_line on the child's stdout: a line the pattern
\* `available at: (http://[\d\.:]+/[^/]+/?)` matches (with its capture), a
\* line it does not match, a line that is empty after trim, EOF, an error.
Uris == [scheme : {"http"}, rest : {"127.0.0.1:1234/abc/", "127.0.0.1:5678/xyz/"}]
StdoutReads ==
    [kind : {"match"}, uri : Uris]
        \cup [kind : {"other", "blank", "eof", "error"}, uri : {NoUri}]

\* uri.replace("http://", "ws://"): the capture starts with http:// and has
\* no second occurrence of it.
ReplaceScheme(uri) ==
    [scheme |-> IF uri.scheme = "http" THEN "ws" ELSE uri.scheme,
     rest |-> uri.rest]

\* self.uri_sender.send(ws_uri).await: buffered, or an error (ignored) when
\* the receiver is gone, or the driver parks until there is room.
UriSend(u) ==
    IF uriRx = "dropped"
    THEN /\ daemonPc' = "select"
         /\ heldUri' = NoUri
         /\ UNCHANGED <<uriChan, uriAccepted>>
    ELSE IF Len(uriChan) < UriCap
    THEN /\ daemonPc' = "select"
         /\ heldUri' = NoUri
         /\ uriChan' = Append(uriChan, u)
         /\ uriAccepted' = Append(uriAccepted, u)
    ELSE /\ daemonPc' = "sendUri"
         /\ heldUri' = u
         /\ UNCHANGED <<uriChan, uriAccepted>>

\* select! branch 1: read_line returned.
DaemonReadLine(read) ==
    /\ daemonPc = "select"
    /\ linesRead < MaxLines
    /\ linesRead' = linesRead + 1
    /\ CASE read.kind = "match" -> UriSend(ReplaceScheme(read.uri))
         [] read.kind \in {"other", "blank"} ->
                UNCHANGED <<daemonPc, heldUri, uriChan, uriAccepted>>
         [] read.kind \in {"eof", "error"} ->
                /\ daemonPc' = "done"
                /\ UNCHANGED <<heldUri, uriChan, uriAccepted>>
    /\ UNCHANGED <<uriRx, gotUri, cmdChan, cmdsSent, stdinWritten>>
    /\ UNCHANGED nonDaemonVars

\* The parked send completes once the receiver has made room or has gone.
DaemonUnpark ==
    /\ daemonPc = "sendUri"
    /\ uriRx = "dropped" \/ Len(uriChan) < UriCap
    /\ UriSend(heldUri)
    /\ UNCHANGED <<uriRx, gotUri, cmdChan, linesRead, cmdsSent, stdinWritten>>
    /\ UNCHANGED nonDaemonVars

\* select! branch 2: a command; it is written to stdin and flushed, and a
\* failed write is only logged.
DaemonCommand(writeOk) ==
    /\ daemonPc = "select"
    /\ cmdChan # <<>>
    /\ cmdChan' = Tail(cmdChan)
    /\ stdinWritten' = IF writeOk THEN Append(stdinWritten, Head(cmdChan))
                       ELSE stdinWritten
    /\ UNCHANGED <<daemonPc, heldUri, uriChan, uriRx, gotUri, linesRead,
                   cmdsSent, uriAccepted>>
    /\ UNCHANGED nonDaemonVars

\* The main loop sends a command (tx.send(..).await on keys q, r, R); with
\* the driver gone the send fails and the error is ignored.
MainSendCommand(cmd) ==
    /\ cmdsSent < MaxCmds
    /\ cmdsSent' = cmdsSent + 1
    /\ IF daemonPc = "done"
       THEN UNCHANGED cmdChan
       ELSE /\ Len(cmdChan) < CmdCap
            /\ cmdChan' = Append(cmdChan, cmd)
    /\ UNCHANGED <<daemonPc, heldUri, uriChan, uriRx, gotUri, linesRead,
                   stdinWritten, uriAccepted>>
    /\ UNCHANGED nonDaemonVars

\* The VM service task: rx_uri.recv().await, once.
VmTaskTakesUri ==
    /\ uriRx = "waiting"
    /\ uriChan # <<>>
    /\ gotUri' = Head(uriChan)
    /\ uriChan' = Tail(uriChan)
    /\ uriRx' = "taken"
    /\ UNCHANGED <<daemonPc, heldUri, cmdChan, linesRead, cmdsSent,
                   stdinWritten, uriAccepted>>
    /\ UNCHANGED nonDaemonVars

\* The VM service task ends (connect or getVM failed, or its loop ended, or
\* recv returned None after the driver ended) and drops rx_uri.
VmTaskEnds ==
    /\ \/ uriRx = "taken"
       \/ uriRx = "waiting" /\ uriChan = <<>> /\ daemonPc = "done"
    /\ uriRx' = "dropped"
    /\ uriChan' = <<>>
    /\ UNCHANGED <<daemonPc, heldUri, gotUri, cmdChan, linesRead, cmdsSent,
                   stdinWritten, uriAccepted>>
    /\ UNCHANGED nonDaemonVars

DaemonRead == \E read \in StdoutReads : DaemonReadLine(read)
DaemonWrite == \E writeOk \in BOOLEAN : DaemonCommand(writeOk)
MainCommand == \E cmd \in {"r", "R", "q"} : MainSendCommand(cmd)

NextDaemon ==
    \/ DaemonRead
    \/ DaemonUnpark
    \/ DaemonWrite
    \/ MainCommand
    \/ VmTaskTakesUri
    \/ VmTaskEnds

InitDaemon ==
    /\ DaemonInit /\ RpcInit /\ UnwrapIdle /\ DebugInit
    /\ SelectIdle /\ DebounceIdle /\ TreeIdle /\ ViewIdle

SpecDaemon == InitDaemon /\ [][NextDaemon]_vars

\* C7 (as claimed): the process driver publishes a URI exactly once, for the
\* first matching stdout line; later matching lines publish nothing.
C7_UriPublishedOnce ==
    Len(uriAccepted) <= 1

\* C8 (as claimed): publishing the URI never blocks the process driver; an
\* attempt on a full channel is dropped and the driver goes on reading stdout
\* and forwarding commands.
C8_PublishNeverBlocks ==
    daemonPc # "sendUri"

\* ====================================================================
\* VM event loop and the main loop's debug-event step (main.rs)
\* ====================================================================

\* The arm of `match event.event_kind.as_str()` an event takes.
EventArmCatchAll(kind) ==
    IF kind \in PauseFamily THEN "pause" ELSE "resume"
EventArm(kind) ==
    IF kind \in PauseFamily THEN "pause"
    ELSE IF kind = "Resume" THEN "resume"
    ELSE "ignore"

\* What the claims expect the view-model to show after an event, if anything.
AsksFor(e) ==
    IF e.event_kind \in PauseFamily /\ e.isolate_id # Absent
    THEN Paused(e.isolate_id, e.event_kind)
    ELSE Running
Decisive(e) ==
    \/ e.event_kind \in PauseFamily /\ e.isolate_id # Absent
    \/ e.event_kind = "Resume"

\* The transport's driver buffers the event of a streamNotify frame it read.
DriverDelivers(e) ==
    /\ framesRead < MaxFrames
    /\ eventRxOpen
    /\ Len(eventChan) < EventCap
    /\ eventChan' = Append(eventChan, e)
    /\ framesRead' = framesRead + 1
    /\ UNCHANGED debugVars
    /\ UNCHANGED nonDebugVars

\* tx_debug_event.send(msg).await: buffered, or the loop parks until the
\* main loop has made room.
DebugSend(msg) ==
    IF Len(debugChan) < DebugCap
    THEN /\ orchPc' = "select"
         /\ heldDebug' = NoDebugMessage
         /\ debugChan' = Append(debugChan, msg)
    ELSE /\ orchPc' = "sendDebug"
         /\ heldDebug' = msg
         /\ UNCHANGED debugChan

\* select! branch rx_event.recv(): a pause-family event with an isolate id
\* starts get_stack, Resume publishes (Running, None), the rest is ignored.
OrchTakeEvent ==
    /\ orchPc = "select"
    /\ eventChan # <<>>
    /\ LET e == Head(eventChan)
           arm == EventArm(e.event_kind)
       IN /\ eventChan' = Tail(eventChan)
          /\ CASE arm = "pause" /\ e.isolate_id # Absent ->
                    /\ orchPc' = "getStack"
                    /\ orchEvent' = e
                    /\ UNCHANGED <<heldDebug, debugChan>>
               [] arm = "pause" /\ e.isolate_id = Absent ->
                    UNCHANGED <<orchPc, orchEvent, heldDebug, debugChan>>
               [] arm = "resume" ->
                    /\ DebugSend([state |-> Running, stack |-> Absent,
                                  cause |-> e.event_kind])
                    /\ UNCHANGED orchEvent
               [] arm = "ignore" ->
                    UNCHANGED <<orchPc, orchEvent, heldDebug, debugChan>>
          /\ IF Decisive(e)
             THEN /\ expectedDebug' = AsksFor(e)
                  /\ reflected' = (debug_state = AsksFor(e))
             ELSE UNCHANGED <<expectedDebug, reflected>>
    /\ UNCHANGED <<framesRead, debug_state, stack_trace, resumeTasks,
                   keysPressed>>
    /\ UNCHANGED nonDebugVars

\* client.get_stack(isolate_id) returned: Ok(stack) publishes
\* (Paused{isolate_id, reason}, Some(stack)); Err publishes nothing.
OrchStackResult(ok) ==
    /\ orchPc = "getStack"
    /\ orchEvent' = NoEvent
    /\ IF ok
       THEN DebugSend([state |-> Paused(orchEvent.isolate_id, orchEvent.event_kind),
                       stack |-> "stack", cause |-> orchEvent.event_kind])
       ELSE /\ orchPc' = "select"
            /\ UNCHANGED <<heldDebug, debugChan>>
    /\ UNCHANGED <<eventChan, framesRead, debug_state, stack_trace,
                   resumeTasks, keysPressed, expectedDebug, reflected>>
    /\ UNCHANGED nonDebugVars

\* The parked send completes once the main loop has made room.
OrchUnpark ==
    /\ orchPc = "sendDebug"
    /\ Len(debugChan) < DebugCap
    /\ DebugSend(heldDebug)
    /\ UNCHANGED <<eventChan, framesRead, orchEvent, debug_state, stack_trace,
                   resumeTasks, keysPressed, expectedDebug, reflected>>
    /\ UNCHANGED nonDebugVars

\* Main loop: rx_debug_event.try_recv() returned a message.
MainRecvDebug ==
    /\ debugChan # <<>>
    /\ LET msg == Head(debugChan)
       IN /\ debug_state' = msg.state
          /\ stack_trace' = IF msg.stack # Absent THEN msg.stack ELSE stack_trace
          /\ reflected' = (reflected \/ msg.state = expectedDebug)
    /\ debugChan' = Tail(debugChan)
    /\ UNCHANGED <<eventChan, framesRead, orchPc, orchEvent, heldDebug,
                   resumeTasks, keysPressed, expectedDebug>>
    /\ UNCHANGED nonDebugVars

\* Main loop, focus DebuggerSource: F5, F10 and F11 spawn a task calling
\* resume (with step None, "Over", "Into") when a client and the selected
\* isolate are there (`ready`); nothing else happens.
MainDebuggerKey(key, ready) ==
    /\ keysPressed < MaxKeys
    /\ key \in {"F5", "F10", "F11"}
    /\ keysPressed' = keysPressed + 1
    /\ resumeTasks' = IF ready THEN resumeTasks + 1 ELSE resumeTasks
    /\ UNCHANGED <<eventChan, framesRead, orchPc, orchEvent, heldDebug,
                   debugChan, debug_state, stack_trace, expectedDebug,
                   reflected>>
    /\ UNCHANGED nonDebugVars

\* A spawned resume call returned; its result is discarded.
ResumeTaskDone(ok) ==
    /\ resumeTasks > 0
    /\ resumeTasks' = resumeTasks - 1
    /\ UNCHANGED <<eventChan, framesRead, orchPc, orchEvent, heldDebug,
                   debugChan, debug_state, stack_trace, keysPressed,
                   expectedDebug, reflected>>
    /\ UNCHANGED nonDebugVars

PeerEvent == \E e \in VmEvents : DriverDelivers(e)
OrchStack == \E ok \in BOOLEAN : OrchStackResult(ok)
MainKey == \E key \in {"F5", "F10", "F11"}, ready \in BOOLEAN :
               MainDebuggerKey(key, ready)
ResumeReturns == \E ok \in BOOLEAN : ResumeTaskDone(ok)

NextDebug ==
    \/ PeerEvent
    \/ OrchTakeEvent
    \/ OrchStack
    \/ OrchUnpark
    \/ MainRecvDebug
    \/ MainKey
    \/ ResumeReturns

InitDebug ==
    /\ DebugInit /\ RpcInit /\ UnwrapIdle /\ DaemonInit
    /\ SelectIdle /\ DebounceIdle /\ TreeIdle /\ ViewIdle

SpecDebug == InitDebug /\ [][NextDebug]_vars

\* Nothing is left to do for the events received so far.
DebugQuiescent ==
    orchPc = "select" /\ eventChan = <<>> /\ debugChan = <<>>

\* C9 (as claimed): for every pause-family event the orchestrator receives,
\* debug_state eventually becomes Paused{isolate_id, reason = event kind},
\* also when getStack fails for it, and for every Resume event Running. For
\* the last such event: once nothing is left to do, debug_state has had the
\* value the event asks for.
C9_PauseReachesView ==
    DebugQuiescent => reflected

\* C10: debug_state changes only when the main loop consumes a debug event
\* that the VM event loop produced from a pause-family or Resume event;
\* other VM events, F5/F10/F11 and RPC results leave it unchanged.
C10_DebugStateFrame ==
    [][debug_state' # debug_state =>
         /\ debugChan # <<>>
         /\ debugChan' = Tail(debugChan)
         /\ debug_state' = Head(debugChan).state
         /\ Head(debugChan).cause \in PauseFamily \cup {"Resume"}]_vars

\* The view shows Paused after a key press whose resume call is in flight
\* and after an event of another kind went by.
C10_Witness ==
    /\ debug_state.tag = "Paused"
    /\ keysPressed > 0
    /\ resumeTasks > 0
    /\ framesRead >= 2

\* ====================================================================
\* Isolate selection: VM task, subtasks and main loop (main.rs)
\* ====================================================================

\* A hot restart replaces the isolates, so a later getVM may list ids the
\* first one did not.
SelectIsolateIds == {"isolates/1", "isolates/2"}
\* vm.isolates: the ids of a list of IsolateRef, without repetition.
IsolateLists ==
    {<<>>, <<"isolates/1">>, <<"isolates/2">>, <<"isolates/1", "isolates/2">>}
\* Results of get_vm: an error or a VM with its isolates.
GetVmResults ==
    [ok : {FALSE}, isolates : {<<>>}] \cup [ok : {TRUE}, isolates : IsolateLists]

InspectorMethod == "ext.flutter.inspector.getRootWidgetSummaryTree"
\* Results of get_isolate: an error, or an Isolate whose extensionRPCs is
\* absent (some = FALSE) or a list of names.
GetIsolateResults ==
    [ok : {FALSE}, some : {FALSE}, rpcs : {{}}]
        \cup [ok : {TRUE}, some : {FALSE}, rpcs : {{}}]
        \cup [ok : {TRUE}, some : {TRUE},
              rpcs : {{}, {"ext.flutter.reassemble"},
                      {"ext.flutter.reassemble", InspectorMethod}}]

\* The poll loop's exit test: Ok(isolate), Some(rpcs), rpcs.contains(method).
PollFoundAnyRpcs(r) == r.ok /\ r.some
PollFound(r) == r.ok /\ r.some /\ InspectorMethod \in r.rpcs

\* vm.isolates.iter().find(|i| i.id == selected_id), on the connect-time vm.
Found(isolates, id) == \E i \in 1..Len(isolates) : isolates[i] = id

\* The process is alive: when main returns the runtime stops every task.
MainAlive == mainPc # "done"

\* tx_isolates.send(..).await of the VM task: buffered, or the task parks.
OrchIsolatesSend(msg) ==
    IF Len(isolatesChan) < IsolatesCap
    THEN /\ selPc' = "select"
         /\ heldIsolates' = NoList
         /\ isolatesChan' = Append(isolatesChan, msg)
    ELSE /\ selPc' = "sendIsolates"
         /\ heldIsolates' = msg
         /\ UNCHANGED isolatesChan

FirstFree == CHOOSE s \in DOMAIN subtasks :
                /\ subtasks[s].pc = "unused"
                /\ \A t \in DOMAIN subtasks : subtasks[t].pc = "unused" => s <= t

\* select! branch rx_selected_isolate: the id is looked up in the
\* connect-time vm.isolates; when found, the subtask is spawned.
OrchTakeSelected ==
    /\ MainAlive
    /\ selPc = "select"
    /\ selectedChan # <<>>
    /\ selectedChan' = Tail(selectedChan)
    /\ IF Found(vmIsolates, Head(selectedChan).id)
       THEN /\ \E s \in DOMAIN subtasks : subtasks[s].pc = "unused"
            /\ current_isolate_id' = Head(selectedChan).id
            /\ subtasks' = [subtasks EXCEPT ![FirstFree] =
                               [pc |-> "poll", isolate |-> Head(selectedChan).id,
                                slept |-> FALSE, advertised |-> FALSE]]
       ELSE UNCHANGED <<current_isolate_id, subtasks>>
    /\ UNCHANGED <<vmIsolates, selPc, heldIsolates, isolatesChan, refreshChan,
                   treeChan, refreshes, available_isolates,
                   show_isolate_selection, selected_isolate_index, mainPc,
                   heldSelected, connection_status, logMatches,
                   logPulses, cmdChan>>
    /\ UNCHANGED nonSelectVars

\* select! branch rx_refresh: a fresh get_vm; its list is published, an
\* error is logged.  `limit` caps the number of pulses consumed in a run.
OrchRefreshWithin(result, limit) ==
    /\ MainAlive
    /\ selPc = "select"
    /\ refreshChan # <<>>
    /\ refreshes < limit
    /\ refreshChan' = Tail(refreshChan)
    /\ refreshes' = refreshes + 1
    /\ IF result.ok
       THEN OrchIsolatesSend([isolates |-> result.isolates, origin |-> "refresh"])
       ELSE UNCHANGED <<selPc, heldIsolates, isolatesChan>>
    /\ UNCHANGED <<vmIsolates, selectedChan, treeChan, current_isolate_id,
                   subtasks, available_isolates, show_isolate_selection,
                   selected_isolate_index, mainPc, heldSelected, connection_status,
                   logMatches, logPulses,
                   cmdChan>>
    /\ UNCHANGED nonSelectVars

OrchRefresh(result) == OrchRefreshWithin(result, MaxRefresh)

\* The VM task's parked send completes once the main loop has made room.
OrchIsolatesUnpark ==
    /\ MainAlive
    /\ selPc = "sendIsolates"
    /\ Len(isolatesChan) < IsolatesCap
    /\ OrchIsolatesSend(heldIsolates)
    /\ UNCHANGED <<vmIsolates, selectedChan, refreshChan, treeChan,
                   current_isolate_id, subtasks, refreshes, available_isolates,
                   show_isolate_selection, selected_isolate_index, mainPc,
                   heldSelected, connection_status, logMatches,
                   logPulses, cmdChan>>
    /\ UNCHANGED nonSelectVars

\* One turn of the subtask's poll loop: get_isolate, then either the break
\* or the log line and the one-second sleep before the next turn.
SubtaskPoll(s, r) ==
    /\ MainAlive
    /\ subtasks[s].pc = "poll"
    /\ subtasks' = [subtasks EXCEPT ![s] =
           [pc |-> IF PollFound(r) THEN "fetch" ELSE "poll",
            isolate |-> subtasks[s].isolate,
            slept |-> subtasks[s].slept \/ ~PollFound(r),
            advertised |-> r.ok /\ InspectorMethod \in r.rpcs]]
    /\ UNCHANGED <<vmIsolates, selPc, heldIsolates, isolatesChan, selectedChan,
                   refreshChan, treeChan, current_isolate_id, refreshes,
                   available_isolates, show_isolate_selection,
                   selected_isolate_index, mainPc, heldSelected, connection_status,
                   logMatches, logPulses,
                   cmdChan>>
    /\ UNCHANGED nonSelectVars

\* The subtask's closing send: the tree on tx_tree, or the connect-time
\* list on tx_isolates; both are send(..).await on a channel of capacity 1.
SubtaskPublish(s, what) ==
    IF what = "tree"
    THEN /\ UNCHANGED isolatesChan
         /\ IF Len(treeChan) < TreeCap
            THEN /\ treeChan' = Append(treeChan, "tree")
                 /\ subtasks' = [subtasks EXCEPT ![s] = DoneSubtask]
            ELSE /\ subtasks' = [subtasks EXCEPT ![s].pc = "sendTree"]
                 /\ UNCHANGED treeChan
    ELSE /\ UNCHANGED treeChan
         /\ IF Len(isolatesChan) < IsolatesCap
            THEN /\ isolatesChan' = Append(isolatesChan,
                        [isolates |-> vmIsolates, origin |-> "failure"])
                 /\ subtasks' = [subtasks EXCEPT ![s] = DoneSubtask]
            ELSE /\ subtasks' = [subtasks EXCEPT ![s].pc = "sendIsolates"]
                 /\ UNCHANGED isolatesChan

\* get_root_widget_summary_tree returned to the subtask.
SubtaskFetch(s, ok) ==
    /\ MainAlive
    /\ subtasks[s].pc = "fetch"
    /\ SubtaskPublish(s, IF ok THEN "tree" ELSE "isolates")
    /\ UNCHANGED <<vmIsolates, selPc, heldIsolates, selectedChan, refreshChan,
                   current_isolate_id, refreshes, available_isolates,
                   show_isolate_selection, selected_isolate_index, mainPc,
                   heldSelected, connection_status, logMatches,
                   logPulses, cmdChan>>
    /\ UNCHANGED nonSelectVars

\* A subtask's parked send completes once the main loop has made room.
SubtaskUnpark(s) ==
    /\ MainAlive
    /\ \/ subtasks[s].pc = "sendTree" /\ Len(treeChan) < TreeCap
          /\ SubtaskPublish(s, "tree")
       \/ subtasks[s].pc = "sendIsolates" /\ Len(isolatesChan) < IsolatesCap
          /\ SubtaskPublish(s, "isolates")
    /\ UNCHANGED <<vmIsolates, selPc, heldIsolates, selectedChan, refreshChan,
                   current_isolate_id, refreshes, available_isolates,
                   show_isolate_selection, selected_isolate_index, mainPc,
                   heldSelected, connection_status, logMatches,
                   logPulses, cmdChan>>
    /\ UNCHANGED nonSelectVars

\* ------------------------------------------------------------ the main loop

\* `if app_state.available_isolates.len() > 1`: the modal opens.
OpensModalAlways(isolates) == Len(isolates) >= 1
OpensModal(isolates) == Len(isolates) > 1

\* tx_selected_isolate.send(id).await: an error (ignored) when the VM task
\* has ended, buffered when there is room, else the main loop parks.  The
\* Enter handler closes the modal after the send.
SelectedDeliver(sel) ==
    IF selPc # "ended" /\ Len(selectedChan) >= SelectedCap
    THEN /\ mainPc' = "sendSelected"
         /\ heldSelected' = sel
         /\ UNCHANGED <<selectedChan, show_isolate_selection>>
    ELSE /\ mainPc' = "loop"
         /\ heldSelected' = NoSelection
         /\ selectedChan' = IF selPc = "ended" THEN selectedChan
                            ELSE Append(selectedChan, sel)
         /\ show_isolate_selection' =
                IF sel.by = "enter" THEN FALSE ELSE show_isolate_selection

\* rx_tree.try_recv(): set_root_node(tree) (the tree itself is the subject
\* of SpecTree) and the status line.
MainRecvTree ==
    /\ mainPc = "loop"
    /\ treeChan # <<>>
    /\ connection_status' = "Connected"
    /\ treeChan' = Tail(treeChan)
    /\ UNCHANGED <<vmIsolates, selPc, heldIsolates, isolatesChan, selectedChan,
                   refreshChan, current_isolate_id, subtasks, refreshes,
                   available_isolates, show_isolate_selection,
                   selected_isolate_index, mainPc, heldSelected, logMatches, logPulses, cmdChan>>
    /\ UNCHANGED nonSelectVars

\* rx_isolates.try_recv(): the list is stored; with more than one isolate
\* the modal opens, else the first isolate, if any, is selected.  (The
\* focus the modal takes is the subject of SpecFocus.)
MainRecvIsolates ==
    /\ mainPc = "loop"
    /\ isolatesChan # <<>>
    /\ available_isolates' = Head(isolatesChan)
    /\ isolatesChan' = Tail(isolatesChan)
    /\ IF OpensModal(Head(isolatesChan).isolates)
       THEN /\ show_isolate_selection' = TRUE
            /\ UNCHANGED <<selectedChan, mainPc, heldSelected>>
       ELSE IF Len(Head(isolatesChan).isolates) >= 1
       THEN SelectedDeliver([id |-> Head(isolatesChan).isolates[1],
                                from |-> Head(isolatesChan).origin,
                                by |-> "auto"])
       ELSE UNCHANGED <<selectedChan, mainPc, heldSelected,
                        show_isolate_selection>>
    /\ UNCHANGED <<vmIsolates, selPc, heldIsolates, refreshChan, treeChan,
                   current_isolate_id, subtasks, refreshes,
                   selected_isolate_index, connection_status, logMatches, logPulses, cmdChan>>
    /\ UNCHANGED nonSelectVars

\* The main loop's parked send completes once the VM task has made room.
MainSelectedUnpark ==
    /\ mainPc = "sendSelected"
    /\ selPc = "ended" \/ Len(selectedChan) < SelectedCap
    /\ SelectedDeliver(heldSelected)
    /\ UNCHANGED <<vmIsolates, selPc, heldIsolates, isolatesChan, refreshChan,
                   treeChan, current_isolate_id, subtasks, refreshes,
                   available_isolates, selected_isolate_index, connection_status,
                   logMatches, logPulses,
                   cmdChan>>
    /\ UNCHANGED nonSelectVars

\* AppState::move_isolate_selection(delta), on Up and Down in the modal.
MovedIsolateIndex(index, delta, len) ==
    IF len = 0 THEN index
    ELSE IF index + delta < 0 THEN 0
    ELSE IF index + delta >= len THEN len - 1
    ELSE index + delta

MainIsolateArrow(delta) ==
    /\ mainPc = "loop"
    /\ show_isolate_selection
    /\ selected_isolate_index' =
           MovedIsolateIndex(selected_isolate_index, delta,
                             Len(available_isolates.isolates))
    /\ UNCHANGED <<vmIsolates, selPc, heldIsolates, isolatesChan, selectedChan,
                   refreshChan, treeChan, current_isolate_id, subtasks,
                   refreshes, available_isolates, show_isolate_selection,
                   mainPc, heldSelected, connection_status, logMatches, logPulses, cmdChan>>
    /\ UNCHANGED nonSelectVars

\* Enter in the modal: available_isolates.get(selected_isolate_index) is
\* sent and the modal closes; an index past the list does nothing.
MainIsolateEnter ==
    /\ mainPc = "loop"
    /\ show_isolate_selection
    /\ IF selected_isolate_index < Len(available_isolates.isolates)
       THEN SelectedDeliver(
                   [id |-> available_isolates.isolates[selected_isolate_index + 1],
                    from |-> available_isolates.origin, by |-> "enter"])
       ELSE UNCHANGED <<selectedChan, mainPc, heldSelected,
                        show_isolate_selection>>
    /\ UNCHANGED <<vmIsolates, selPc, heldIsolates, isolatesChan, refreshChan,
                   treeChan, current_isolate_id, subtasks, refreshes,
                   available_isolates, selected_isolate_index, connection_status,
                   logMatches, logPulses, cmdChan>>
    /\ UNCHANGED nonSelectVars

\* A user quit: the key `q` (in the modal: a bare break; else `q` is sent
\* on the command channel first) or the Quit button (mouse events are
\* ignored while the modal is open).
MainQuit(path) ==
    /\ mainPc = "loop"
    /\ path = "button" => ~show_isolate_selection
    /\ mainPc' = "done"
    /\ IF show_isolate_selection \/ daemonPc = "done"
       THEN UNCHANGED cmdChan
       ELSE /\ Len(cmdChan) < CmdCap
            /\ cmdChan' = Append(cmdChan, "q")
    /\ UNCHANGED <<vmIsolates, selPc, heldIsolates, isolatesChan, selectedChan,
                   refreshChan, treeChan, current_isolate_id, subtasks,
                   refreshes, available_isolates, show_isolate_selection,
                   selected_isolate_index, heldSelected, connection_status, logMatches, logPulses>>
    /\ UNCHANGED nonSelectVars

\* Log entries as the logger formats them, "[LEVEL] message", as sequences
\* of words.
LogEntries ==
    {<<"[INFO]", "Flutter", "Output:", "Reloaded", "3", "libraries">>,
     <<"[INFO]", "Flutter", "Output:", "Restarted", "application">>,
     <<"[INFO]", "Flutter", "Output:", "Syncing", "files">>,
     <<"[ERROR]", "Flutter", "Error:", "not", "reloaded">>}

Contains(entry, word) == \E i \in 1..Len(entry) : entry[i] = word

\* What the observer counts: the entry has one of the two markers in it.
CarriesMarker(entry) ==
    \E i \in 1..Len(entry) : entry[i] \in {"Reloaded", "Restarted"}

\* log_entry.contains("Reloaded") || log_entry.contains("Restarted")
IsReloadEntryReloadedOnly(entry) == Contains(entry, "Reloaded")
IsReloadEntry(entry) == Contains(entry, "Reloaded") \/ Contains(entry, "Restarted")

\* tx_refresh.try_send(()): the pulse is buffered when the VM task lives
\* and the channel has room, and dropped otherwise.
RefreshTrySend(origin) ==
    IF selPc # "ended" /\ Len(refreshChan) < RefreshCap
    THEN /\ refreshChan' = Append(refreshChan, origin)
         /\ logPulses' = IF origin = "log" THEN logPulses + 1 ELSE logPulses
    ELSE UNCHANGED <<refreshChan, logPulses>>

\* One turn of `while let Ok(log_entry) = rx_log.try_recv()`.
MainLogEntry(entry) ==
    /\ mainPc = "loop"
    /\ logMatches + (IF CarriesMarker(entry) THEN 1 ELSE 0) <= MaxLogs
    /\ logMatches' = logMatches + (IF CarriesMarker(entry) THEN 1 ELSE 0)
    /\ IF IsReloadEntry(entry)
       THEN RefreshTrySend("log")
       ELSE UNCHANGED <<refreshChan, logPulses>>
    /\ UNCHANGED <<vmIsolates, selPc, heldIsolates, isolatesChan, selectedChan,
                   treeChan, current_isolate_id, subtasks, refreshes,
                   available_isolates, show_isolate_selection,
                   selected_isolate_index, mainPc, heldSelected, connection_status, cmdChan>>
    /\ UNCHANGED nonSelectVars

\* F5 outside the debugger's source view, or the Refresh button.
MainRefreshKey ==
    /\ mainPc = "loop"
    /\ ~show_isolate_selection
    /\ RefreshTrySend("key")
    /\ UNCHANGED <<vmIsolates, selPc, heldIsolates, isolatesChan, selectedChan,
                   treeChan, current_isolate_id, subtasks, refreshes,
                   available_isolates, show_isolate_selection,
                   selected_isolate_index, mainPc, heldSelected, connection_status,
                   logMatches, cmdChan>>
    /\ UNCHANGED nonSelectVars

SelectTake == OrchTakeSelected
SelectRefresh == \E result \in GetVmResults : OrchRefresh(result)
SelectPoll ==
    \E s \in 1..MaxSubtasks : \E r \in GetIsolateResults : SubtaskPoll(s, r)
SelectFetch == \E s \in 1..MaxSubtasks : \E ok \in BOOLEAN : SubtaskFetch(s, ok)
SelectSubtaskUnpark == \E s \in 1..MaxSubtasks : SubtaskUnpark(s)
SelectArrow == \E delta \in {-1, 1} : MainIsolateArrow(delta)
SelectQuit == \E path \in {"key", "button"} : MainQuit(path)
SelectLog == \E entry \in LogEntries : MainLogEntry(entry)

NextSelect ==
    \/ SelectTake
    \/ SelectRefresh
    \/ OrchIsolatesUnpark
    \/ SelectPoll
    \/ SelectFetch
    \/ SelectSubtaskUnpark
    \/ MainRecvTree
    \/ MainRecvIsolates
    \/ MainSelectedUnpark
    \/ SelectArrow
    \/ MainIsolateEnter
    \/ SelectQuit
    \/ SelectLog
    \/ MainRefreshKey

\* The VM task has connected, fetched a VM with isolates and published
\* them; or it has ended before (no URI, connect or getVM failed, no
\* isolates).
InitSelect ==
    /\ \/ \E l \in IsolateLists \ {<<>>} :
             SelectStart(l, "select", <<[isolates |-> l, origin |-> "connect"]>>)
       \/ SelectStart(<<>>, "ended", <<>>)
    /\ RpcInit /\ UnwrapIdle /\ DaemonInit /\ DebugInit
    /\ DebounceIdle /\ TreeIdle /\ ViewIdle

SpecSelect == InitSelect /\ [][NextSelect]_vars

\* A subtask that has left its poll loop: it is calling
\* get_root_widget_summary_tree or publishing what the call returned.
PastPolling(s) == subtasks[s].pc \in {"fetch", "sendTree", "sendIsolates"}

\* C11: a subtask sends getRootWidgetSummaryTree for its isolate only after a
\* getIsolate response for that isolate listed the method; after a failed
\* getIsolate, or a response without the method, it polls again and does not
\* fetch.
C11_FetchOnlyAfterAdvertised ==
    \A s \in 1..MaxSubtasks :
        /\ PastPolling(s) => subtasks[s].advertised
        /\ (subtasks[s].pc = "poll" /\ subtasks[s].slept) =>
               ~subtasks[s].advertised

\* A subtask fetches after a poll that did not find the method and a later
\* one that did.
C11_Witness ==
    \E s \in 1..MaxSubtasks :
        subtasks[s].pc = "fetch" /\ subtasks[s].slept /\ subtasks[s].advertised

\* The main loop takes a list from the isolate-list channel in this step.
ListTaken == mainPc = "loop" /\ Len(isolatesChan') < Len(isolatesChan)
\* The main loop starts a send on the selection channel in this step.
SelectionStarted ==
    /\ mainPc = "loop"
    /\ Len(selectedChan') > Len(selectedChan) \/ mainPc' = "sendSelected"
\* The selection that send carries.
StartedSelection ==
    IF mainPc' = "sendSelected" THEN heldSelected'
    ELSE selectedChan'[Len(selectedChan')]

\* C12 (as claimed): when the list re-published after a failed tree fetch
\* reaches the UI, the modal is open and no selection is made for the user,
\* whatever the number of isolates in the list.
C12_FailureReopensModal ==
    [][IF ListTaken
       THEN Head(isolatesChan).origin = "failure" =>
                show_isolate_selection' /\ ~SelectionStarted
       ELSE TRUE]_vars

C14_RefreshSelectionFetches ==
    [][IF selPc = "select" /\ Len(selectedChan') < Len(selectedChan)
       THEN Head(selectedChan).from = "refresh" =>
                \E s \in 1..MaxSubtasks :
                    /\ subtasks[s].pc = "unused"
                    /\ subtasks'[s].pc = "poll"
                    /\ subtasks'[s].isolate = Head(selectedChan).id
       ELSE TRUE]_vars

\* C15 (as claimed): with the VM task running, every consumed log entry
\* that carries a marker has produced one refresh pulse: k entries, k pulses.
C15_EveryMarkedEntryPulses ==
    selPc # "ended" => logPulses = logMatches

\* C15 (amended): a consumed entry makes one non-blocking attempt to send a
\* pulse iff it carries a marker; the attempt puts one pulse into the
\* channel when the VM task lives and the channel is empty, and is dropped
\* otherwise; the log pump sends no pulse for any other entry.
C15_MarkedEntryTriesOnce ==
    /\ [](logPulses <= logMatches)
    /\ [][IF logMatches' # logMatches
          THEN IF selPc # "ended" /\ Len(refreshChan) < RefreshCap
               THEN /\ refreshChan' = Append(refreshChan, "log")
                    /\ logPulses' = logPulses + 1
               ELSE /\ refreshChan' = refreshChan
                    /\ logPulses' = logPulses
          ELSE logPulses' = logPulses]_vars

\* Two marked entries were consumed before the VM task took a pulse: the
\* first is in the channel, the second was dropped.
C15_Witness ==
    logMatches = 2 /\ logPulses = 1 /\ refreshes = 0 /\ refreshChan = <<"log">>

\* C18 (as claimed): no step of the main loop waits on a channel.
C18_MainLoopNeverBlocks ==
    mainPc # "sendSelected"

\* C19 (as claimed): when a user quit has ended the main loop, `q` was sent
\* on the command channel.
C19_QuitSendsQ ==
    mainPc = "done" => \E i \in 1..Len(cmdChan) : cmdChan[i] = "q"

\* ====================================================================
\* SpecDebounce: the watcher bridge and the debounced auto-reload
\* (main.rs 78-125, 290, 336-351, 539-541).  Time is counted in ticks of
\* 100 ms, the timeout of the loop's event poll.
\* ====================================================================

\* A file-change event passes the bridge's filter when one of its paths is
\* not ignored by .gitignore and has the extension "dart".
IsDartChange(ignored, extension) ==
    ~ignored /\ extension = "dart"

\* A pulse starts a burst when it is the first one or follows the previous
\* pulse by DebounceTicks or more (history).
StartsBurst ==
    pulsesEmitted = 0 \/ now - lastPulseAt >= DebounceTicks

\* The watcher reports an event to the bridge: std_tx is unbounded, and the
\* bridge keeps an event only if it passes the filter.
WatcherEvent(ignored, extension) ==
    /\ pulsesEmitted < MaxPulses
    /\ IF IsDartChange(ignored, extension)
       THEN /\ bridgePending' = Append(bridgePending, StartsBurst)
            /\ pulsesEmitted' = pulsesEmitted + 1
            /\ lastPulseAt' = now
       ELSE UNCHANGED <<bridgePending, pulsesEmitted, lastPulseAt>>
    /\ UNCHANGED <<now, watchChan, debounce_deadline, auto_reload, toggles,
                   burstReloads, burstMissed>>
    /\ UNCHANGED <<daemonVars, nonDebounceVars>>

\* The bridge task: tx_watch.send(()).await, which waits while the channel
\* is full.
BridgeForward ==
    /\ bridgePending # <<>>
    /\ Len(watchChan) < WatchCap
    /\ watchChan' = Append(watchChan, Head(bridgePending))
    /\ bridgePending' = Tail(bridgePending)
    /\ UNCHANGED <<now, debounce_deadline, auto_reload, pulsesEmitted,
                   toggles, lastPulseAt, burstReloads, burstMissed>>
    /\ UNCHANGED <<daemonVars, nonDebounceVars>>

\* 100 ms pass.  Forwarding a pulse takes the bridge far less than that:
\* the clock does not advance while the bridge could forward one at once.
Tick ==
    /\ now < MaxTime
    /\ ~(bridgePending # <<>> /\ Len(watchChan) < WatchCap)
    /\ now' = now + 1
    /\ UNCHANGED <<bridgePending, watchChan, debounce_deadline, auto_reload,
                   pulsesEmitted, toggles, lastPulseAt, burstReloads,
                   burstMissed>>
    /\ UNCHANGED <<daemonVars, nonDebounceVars>>

\* rx_watch.try_recv() returned a pulse: Some(Instant::now() + 500 ms).
DeadlineAfterPulse(t) == t + DebounceTicks

\* Instant::now() >= deadline, for an armed deadline.
Elapsed(deadline, t) ==
    deadline # NoDeadline /\ t >= deadline

\* The deadline after it was seen elapsed without being disarmed.
AfterElapseKeep(deadline) == deadline
\* The deadline after it was seen elapsed: debounce_deadline = None.
AfterElapse(deadline) == NoDeadline

\* `r` is sent whatever the flag.
SendsReloadAlways(flag) == TRUE
\* `if app_state.auto_reload`.
SendsReload(flag) == flag

\* One pass of the main loop over the watcher channel and the debounce
\* timer: a waiting pulse re-arms the deadline; then an elapsed deadline is
\* disarmed and, with auto-reload on, `r` is sent on the command channel
\* (tx.send(..).await: it waits for room, and fails unnoticed when the
\* process driver has ended).
MainDebounce ==
    LET took == watchChan # <<>>
        first == took /\ Head(watchChan)
        deadline == IF took THEN DeadlineAfterPulse(now)
                    ELSE debounce_deadline
        fires == Elapsed(deadline, now)
        sends == fires /\ SendsReload(auto_reload)
        reloads == IF first THEN 0 ELSE burstReloads
        missed == IF first THEN FALSE ELSE burstMissed
    IN  /\ took \/ debounce_deadline # NoDeadline
        /\ watchChan' = IF took THEN Tail(watchChan) ELSE watchChan
        /\ debounce_deadline' = IF fires THEN AfterElapse(deadline)
                                ELSE deadline
        /\ IF sends /\ daemonPc # "done"
           THEN /\ Len(cmdChan) < CmdCap
                /\ cmdChan' = Append(cmdChan, "r")
                /\ burstReloads' = reloads + 1
           ELSE /\ cmdChan' = cmdChan
                /\ burstReloads' = reloads
        /\ burstMissed' = (missed \/ (fires /\ ~sends))
        /\ UNCHANGED <<now, bridgePending, auto_reload, pulsesEmitted,
                       toggles, lastPulseAt>>
        /\ UNCHANGED <<daemonBesidesCommands, nonDebounceVars>>

\* Key `a` (and the Auto button): auto_reload = !auto_reload.
MainToggleAutoReload ==
    /\ toggles < MaxToggles
    /\ toggles' = toggles + 1
    /\ auto_reload' = ~auto_reload
    /\ UNCHANGED <<now, bridgePending, watchChan, debounce_deadline,
                   pulsesEmitted, lastPulseAt, burstReloads, burstMissed>>
    /\ UNCHANGED <<daemonVars, nonDebounceVars>>

WatcherReports ==
    \E ignored \in BOOLEAN, extension \in {"dart", "yaml"} :
        WatcherEvent(ignored, extension)

NextDebounce ==
    \/ WatcherReports
    \/ BridgeForward
    \/ Tick
    \/ MainDebounce
    \/ MainToggleAutoReload
    \/ DaemonWrite

InitDebounce ==
    /\ \E flag \in BOOLEAN : DebounceStart(flag)
    /\ DaemonInit /\ RpcInit /\ UnwrapIdle /\ DebugInit
    /\ SelectIdle /\ TreeIdle /\ ViewIdle

SpecDebounce == InitDebounce /\ [][NextDebounce]_vars

\* The burst is over and dealt with: pulses were emitted, none is on its
\* way to the main loop, and the deadline is disarmed.
Settled ==
    /\ pulsesEmitted > 0
    /\ bridgePending = <<>>
    /\ watchChan = <<>>
    /\ debounce_deadline = NoDeadline

\* C16: for a burst of pulses, each less than 500 ms after the previous
\* one, the debounce never sends more than one `r`; once the burst is over
\* and its deadline was seen elapsed with auto-reload on, exactly one `r`
\* was sent and the deadline is disarmed, and from a disarmed deadline no
\* `r` is sent unless a pulse is taken.
C16_OneReloadPerBurst ==
    /\ [](burstReloads <= 1)
    /\ [](Settled /\ ~burstMissed => burstReloads = 1)
    /\ [][IF cmdChan' # cmdChan /\ Len(cmdChan') > Len(cmdChan)
          THEN /\ debounce_deadline # NoDeadline \/ watchChan # <<>>
               /\ debounce_deadline' = NoDeadline
          ELSE TRUE]_vars

\* A burst of two pulses 400 ms apart is over, one `r` was sent for it and
\* the process driver wrote it to the child.
C16_Witness ==
    /\ Settled
    /\ pulsesEmitted = 2
    /\ lastPulseAt = 4
    /\ burstReloads = 1
    /\ ~burstMissed
    /\ stdinWritten = <<"r">>

\* C17: the debounce sends `r` only in a step that sees the deadline
\* elapsed with auto-reload on; a deadline seen elapsed with auto-reload
\* off is disarmed, and no `r` is sent for that burst afterwards, whatever
\* the flag becomes.
C17_ReloadOnlyIfFlagOn ==
    /\ [](burstMissed => burstReloads = 0)
    /\ [][IF cmdChan' # cmdChan /\ Len(cmdChan') > Len(cmdChan)
          THEN auto_reload
          ELSE TRUE]_vars
    /\ [][IF burstMissed' /\ ~burstMissed
          THEN debounce_deadline' = NoDeadline /\ ~auto_reload
          ELSE TRUE]_vars

\* The deadline elapsed with auto-reload off, the flag was switched on
\* afterwards and more than 500 ms went by: nothing was sent.
C17_Witness ==
    /\ burstMissed
    /\ auto_reload
    /\ Settled
    /\ now >= lastPulseAt + 2 * DebounceTicks
    /\ burstReloads = 0
    /\ cmdChan = <<>>
    /\ stdinWritten = <<>>

\* ====================================================================
\* SpecTree: the visible view of the widget tree, as the renderer flattens
\* it (ui/tree.rs) and as the view-model counts and indexes it
\* (app_state.rs).
\* ====================================================================

\* The identifiers a node may carry: none, both, or the object id alone.
NodeIdPairs ==
    {[value_id |-> Absent, object_id |-> Absent],
     [value_id |-> "a", object_id |-> "b"],
     [value_id |-> Absent, object_id |-> "b"]}

\* RemoteDiagnosticsNode, reduced to its identifiers and children (no
\* children and an empty list of children are treated alike everywhere).
DiagnosticsNode(ids, children) ==
    [value_id |-> ids.value_id, object_id |-> ids.object_id,
     children |-> children]

SeqsUpTo(S, n) == UNION {[1..k -> S] : k \in 0..n}

\* Trees of up to three levels: a root with up to MaxKids children, each
\* with at most one child.
LeafNodes == {DiagnosticsNode(ids, <<>>) : ids \in NodeIdPairs}
InnerNodes ==
    LeafNodes \cup
    {DiagnosticsNode(ids, <<leaf>>) : ids \in NodeIdPairs, leaf \in LeafNodes}
RootNodes ==
    {DiagnosticsNode(ids, children) :
        ids \in NodeIdPairs, children \in SeqsUpTo(InnerNodes, MaxKids)}

\* value_id.or(object_id)
get_node_id(node) ==
    IF node.value_id # Absent THEN node.value_id ELSE node.object_id

RECURSIVE flatten_tree(_, _, _)
RECURSIVE FlattenChildren(_, _, _, _)
\* Draws the children of every node, expanded or not.
FlattenEveryNode(node, position, expanded) ==
    <<position>> \o FlattenChildren(node.children, 1, position, expanded)

\* ui/tree.rs flatten_tree: the node's line, then its children's when it
\* has children and is expanded; a node without id counts as expanded.
flatten_tree(node, position, expanded) ==
    LET has_children == node.children # <<>>
        is_expanded == IF get_node_id(node) # Absent
                       THEN get_node_id(node) \in expanded
                       ELSE TRUE
    IN  <<position>> \o
        (IF has_children /\ is_expanded
         THEN FlattenChildren(node.children, 1, position, expanded)
         ELSE <<>>)
FlattenChildren(children, i, position, expanded) ==
    IF i > Len(children) THEN <<>>
    ELSE flatten_tree(children[i], Append(position, i), expanded) \o
         FlattenChildren(children, i + 1, position, expanded)

RECURSIVE count_visible(_, _)
RECURSIVE CountChildren(_, _, _)
\* AppState::count_visible: the node, then its children when it has an id
\* and the id is expanded.
count_visible(node, expanded) ==
    1 + (IF get_node_id(node) # Absent /\ get_node_id(node) \in expanded
         THEN CountChildren(node.children, 1, expanded)
         ELSE 0)
CountChildren(children, i, expanded) ==
    IF i > Len(children) THEN 0
    ELSE count_visible(children[i], expanded) +
         CountChildren(children, i + 1, expanded)

\* AppState::visible_count, for a loaded tree.
visible_count(root, expanded) == count_visible(root, expanded)

RECURSIVE find_node_at_index(_, _, _, _, _)
RECURSIVE FindInChildren(_, _, _, _, _, _)
\* AppState::find_node_at_index: the node found, or NoNode, and the value
\* of *current_index afterwards.
find_node_at_index(node, position, expanded, target, current_index) ==
    IF current_index = target
    THEN [found |-> position, current_index |-> current_index]
    ELSE IF get_node_id(node) # Absent /\ get_node_id(node) \in expanded
         THEN FindInChildren(node.children, 1, position, expanded, target,
                             current_index + 1)
         ELSE [found |-> NoNode, current_index |-> current_index + 1]
FindInChildren(children, i, position, expanded, target, current_index) ==
    IF i > Len(children)
    THEN [found |-> NoNode, current_index |-> current_index]
    ELSE LET r == find_node_at_index(children[i], Append(position, i),
                                     expanded, target, current_index)
         IN  IF r.found # NoNode THEN r
             ELSE FindInChildren(children, i + 1, position, expanded,
                                 target, r.current_index)

\* AppState::get_selected_node, for a loaded tree.
get_selected_node(root, expanded, index) ==
    find_node_at_index(root, <<0>>, expanded, index, 0).found

\* ui/tree.rs draw: the lines of the tree pane.
TreeDraw ==
    /\ treeLines' = flatten_tree(root_node, <<0>>, expanded_ids)
    /\ UNCHANGED <<root_node, expanded_ids, selected_index, treeCount,
                   treeNode>>
    /\ UNCHANGED nonTreeVars

TreeVisibleCount ==
    /\ treeCount' = visible_count(root_node, expanded_ids)
    /\ UNCHANGED <<root_node, expanded_ids, selected_index, treeLines,
                   treeNode>>
    /\ UNCHANGED nonTreeVars

TreeGetSelectedNode ==
    /\ treeNode' = get_selected_node(root_node, expanded_ids, selected_index)
    /\ UNCHANGED <<root_node, expanded_ids, selected_index, treeLines,
                   treeCount>>
    /\ UNCHANGED nonTreeVars

NextTree ==
    \/ TreeDraw
    \/ TreeVisibleCount
    \/ TreeGetSelectedNode

\* A tree is loaded, with any expansion set and a selection within the
\* view-model's count (move_selection and set_root_node keep it there).
InitTree ==
    /\ root_node \in RootNodes
    /\ expanded_ids \in SUBSET {"a", "b"}
    /\ selected_index \in 0..(visible_count(root_node, expanded_ids) - 1)
    /\ TreeNotViewed
    /\ RpcInit /\ UnwrapIdle /\ DaemonInit /\ DebugInit
    /\ SelectIdle /\ DebounceIdle /\ ViewIdle

SpecTree == InitTree /\ [][NextTree]_vars

\* C20 (as claimed): the view-model counts as many nodes as the renderer
\* draws lines, and the node it resolves at the selected index is the node
\* drawn on that line.
C20_CountAndIndexMatchLines ==
    /\ treeLines # <<>> /\ treeCount # 0 => treeCount = Len(treeLines)
    /\ treeLines # <<>> /\ treeNode # NoNode =>
           /\ selected_index + 1 <= Len(treeLines)
           /\ treeNode = treeLines[selected_index + 1]

\* ====================================================================
\* SpecNav: the view-model's tree navigation and refresh with selection
\* preservation (app_state.rs), with the handlers of main.rs that call
\* them.
\* ====================================================================

\* RemoteDiagnosticsNode with the fields navigation and search read.
WidgetNode(value_id, object_id, description, children) ==
    [value_id |-> value_id, object_id |-> object_id,
     description |-> description, children |-> children]

\* A single-child chain of seven widgets.
ChainTree ==
    WidgetNode("a", Absent, <<"t">>, <<
    WidgetNode("b", "o2", <<"b">>, <<
    WidgetNode("c", Absent, <<"b">>, <<
    WidgetNode("d", Absent, <<"t">>, <<
    WidgetNode("e", Absent, <<"b">>, <<
    WidgetNode("f", Absent, <<"b">>, <<
    WidgetNode("g", Absent, <<"b">>, <<>>)>>)>>)>>)>>)>>)>>)

\* A root with a child that has no identity but a child of its own, and a
\* second child after it.
ForkTree ==
    WidgetNode("a", Absent, <<"b">>, <<
        WidgetNode(Absent, Absent, <<"b">>, <<
            WidgetNode("b", Absent, <<"t">>, <<>>)>>),
        WidgetNode(Absent, "c", <<"t", "b">>, <<>>)>>)

\* A tree whose nodes all have identities.
PlainTree ==
    WidgetNode("a", Absent, <<"b">>, <<
        WidgetNode("b", Absent, <<"b">>, <<
            WidgetNode("d", Absent, <<"t">>, <<>>)>>),
        WidgetNode("c", Absent, <<"t", "b">>, <<>>)>>)

\* The trees the inspector may return; identities are distinct within a
\* tree, as the inspector assigns them.
WidgetTrees == {ChainTree, ForkTree, PlainTree}

RECURSIVE NodeAt(_, _)
\* The node a reference points to: `position` is <<0>> for `node` itself
\* and <<0, i, ...>> for a node below its i-th child.
NodeAt(node, position) ==
    IF Len(position) = 1 THEN node
    ELSE NodeAt(node.children[position[2]],
                <<0>> \o SubSeq(position, 3, Len(position)))

\* get_selected_node, for Option<root>.
SelectedPosition(root, expanded, index) ==
    IF root = NoRoot THEN NoNode
    ELSE get_selected_node(root, expanded, index)

\* self.get_selected_node().and_then(|n| Self::get_node_id(n))
SelectedId(root, expanded, index) ==
    LET position == SelectedPosition(root, expanded, index)
    IN  IF position = NoNode THEN Absent
        ELSE get_node_id(NodeAt(root, position))

\* AppState::visible_count, for Option<root>.
VisibleCount(root, expanded) ==
    IF root = NoRoot THEN 0 ELSE visible_count(root, expanded)

RECURSIVE find_path_to_node(_, _, _)
RECURSIVE FindPathInChildren(_, _, _, _)
\* AppState::find_path_to_node: whether the target was found, and `path`
\* afterwards.
find_path_to_node(node, target_id, path) ==
    LET id == get_node_id(node)
    IN  IF id = Absent THEN [found |-> FALSE, path |-> path]
        ELSE IF id = target_id THEN [found |-> TRUE, path |-> path]
        ELSE LET r == FindPathInChildren(node.children, 1, target_id,
                                         Append(path, id))
             IN  IF r.found THEN r ELSE [found |-> FALSE, path |-> path]
FindPathInChildren(children, i, target_id, path) ==
    IF i > Len(children) THEN [found |-> FALSE, path |-> path]
    ELSE LET r == find_path_to_node(children[i], target_id, path)
         IN  IF r.found THEN r
             ELSE FindPathInChildren(children, i + 1, target_id, path)

\* AppState::expand_path_to_node: the expansion set afterwards.
expand_path_to_node(root, expanded, target_id) ==
    IF root = NoRoot THEN expanded
    ELSE LET r == find_path_to_node(root, target_id, <<>>)
         IN  IF r.found
             THEN expanded \cup {r.path[i] : i \in 1..Len(r.path)}
             ELSE expanded

RECURSIVE find_visible_index_recursive(_, _, _, _)
RECURSIVE FindVisibleInChildren(_, _, _, _, _)
\* AppState::find_visible_index_recursive: Some(index) or None, and
\* *current_index afterwards.
find_visible_index_recursive(node, target_id, expanded, current_index) ==
    LET id == get_node_id(node)
    IN  IF id = Absent
        THEN [found |-> FALSE, index |-> 0, current_index |-> current_index]
        ELSE IF id = target_id
        THEN [found |-> TRUE, index |-> current_index,
              current_index |-> current_index]
        ELSE IF id \in expanded
        THEN FindVisibleInChildren(node.children, 1, target_id, expanded,
                                   current_index + 1)
        ELSE [found |-> FALSE, index |-> 0,
              current_index |-> current_index + 1]
FindVisibleInChildren(children, i, target_id, expanded, current_index) ==
    IF i > Len(children)
    THEN [found |-> FALSE, index |-> 0, current_index |-> current_index]
    ELSE LET r == find_visible_index_recursive(children[i], target_id,
                                               expanded, current_index)
         IN  IF r.found THEN r
             ELSE FindVisibleInChildren(children, i + 1, target_id, expanded,
                                        r.current_index)

\* AppState::get_visible_index_of_id
get_visible_index_of_id(root, expanded, target_id) ==
    IF root = NoRoot
    THEN [found |-> FALSE, index |-> 0, current_index |-> 0]
    ELSE find_visible_index_recursive(root, target_id, expanded, 0)

RestoreKeepsOffset(index, offset) == offset

\* AppState::ensure_selection_visible_after_restore: the scroll offset
\* afterwards.
ensure_selection_visible_after_restore(index, offset) ==
    IF index < offset THEN index
    ELSE IF index >= 3 THEN index - 3 ELSE 0

\* Inserts the selected node's identity whether it was expanded or not.
ToggleOnlyExpands(root, expanded, index) ==
    expanded \cup ({SelectedId(root, expanded, index)} \ {Absent})
\* AppState::toggle_expand: the expansion set afterwards.
toggle_expand(root, expanded, index) ==
    LET id == SelectedId(root, expanded, index)
    IN  IF id = Absent THEN expanded
        ELSE IF id \in expanded THEN expanded \ {id}
        ELSE expanded \cup {id}

RECURSIVE collect_smart_expand_ids(_, _)
\* AppState::collect_smart_expand_ids: the identities pushed.
collect_smart_expand_ids(node, depth_limit) ==
    IF get_node_id(node) = Absent THEN {}
    ELSE {get_node_id(node)} \cup
         (IF depth_limit > 0 /\ Len(node.children) = 1
          THEN collect_smart_expand_ids(node.children[1], depth_limit - 1)
          ELSE {})

ExpandSelectedOnly(root, expanded, index) ==
    expanded \cup ({SelectedId(root, expanded, index)} \ {Absent})

\* AppState::expand_selected: the expansion set afterwards.
expand_selected(root, expanded, index) ==
    LET position == SelectedPosition(root, expanded, index)
    IN  IF position = NoNode THEN expanded
        ELSE expanded \cup collect_smart_expand_ids(NodeAt(root, position), 5)

\* AppState::collapse_selected: what it returns.
collapse_selected(root, expanded, index) ==
    LET id == SelectedId(root, expanded, index)
    IN  id # Absent /\ id \in expanded

\* `Option<usize>`: None.
NoIndex == -1

RECURSIVE find_parent_index(_, _, _, _, _)
RECURSIVE FindParentInChildren(_, _, _, _, _, _)
\* AppState::find_parent_index: Some(index) or None, and *current_index
\* afterwards.
find_parent_index(node, expanded, target, current_index, parent_index) ==
    IF current_index = target
    THEN [index |-> parent_index, current_index |-> current_index]
    ELSE IF get_node_id(node) # Absent /\ get_node_id(node) \in expanded
         THEN FindParentInChildren(node.children, 1, expanded, target,
                                   current_index + 1, current_index)
         ELSE [index |-> NoIndex, current_index |-> current_index + 1]
FindParentInChildren(children, i, expanded, target, current_index, my_index) ==
    IF i > Len(children)
    THEN [index |-> NoIndex, current_index |-> current_index]
    ELSE LET r == find_parent_index(children[i], expanded, target,
                                    current_index, my_index)
         IN  IF r.index # NoIndex THEN r
             ELSE FindParentInChildren(children, i + 1, expanded, target,
                                       r.current_index, my_index)

\* The selection stays where it is.
SelectParentStays(root, expanded, index) == index

\* AppState::select_parent: selected_index afterwards.
select_parent(root, expanded, index) ==
    IF root = NoRoot THEN index
    ELSE LET r == find_parent_index(root, expanded, index, 0, NoIndex)
         IN  IF r.index # NoIndex THEN r.index ELSE index

\* The new index without the clamp at the end of the list.
MoveClampsAtZeroOnly(count, index, delta) ==
    IF index + delta < 0 THEN 0 ELSE index + delta

\* AppState::move_selection on a non-empty tree: selected_index afterwards.
move_selection(count, index, delta) ==
    LET new_index == index + delta
    IN  IF new_index < 0 THEN 0
        ELSE IF new_index >= count THEN count - 1
        ELSE new_index

\* AppState::update_tree_scroll: the scroll offset afterwards.
update_tree_scroll(index, offset, height) ==
    IF index < offset THEN index
    ELSE IF index >= offset + height THEN index - height + 1
    ELSE offset

\* The tree pane, as the orchestrator and the handlers leave it.
NavUnchanged == UNCHANGED <<treeLines, treeCount, treeNode, search_query,
                            search_results, current_match_index,
                            tree_horizontal_scroll, focusVars, breakVars,
                            nonViewVars>>

\* A refresh that starts from an empty expansion set.
NavSetRootNodeCollapsing(node) ==
    /\ root_node' = node
    /\ expanded_ids' = {get_node_id(node)} \ {Absent}
    /\ selected_index' = 0
    /\ tree_scroll_offset' = 0
    /\ selected_node_details' = Absent
    /\ lastOp' = "set_root_node"
    /\ NavUnchanged

\* Main loop, rx_tree: AppState::set_root_node(node).
NavSetRootNode(node) ==
    LET selected_id == SelectedId(root_node, expanded_ids, selected_index)
        with_root == IF get_node_id(node) # Absent
                     THEN expanded_ids \cup {get_node_id(node)}
                     ELSE expanded_ids
        opened == expand_path_to_node(node, with_root, selected_id)
        r == get_visible_index_of_id(node, opened, selected_id)
    IN  /\ root_node' = node
        /\ IF selected_id # Absent
           THEN /\ expanded_ids' = opened
                /\ IF r.found
                   THEN /\ selected_index' = r.index
                        /\ tree_scroll_offset' =
                               ensure_selection_visible_after_restore(
                                   r.index, tree_scroll_offset)
                        /\ UNCHANGED selected_node_details
                   ELSE /\ selected_index' = 0
                        /\ tree_scroll_offset' = 0
                        /\ selected_node_details' = Absent
           ELSE /\ expanded_ids' = with_root
                /\ selected_index' = 0
                /\ tree_scroll_offset' = 0
                /\ selected_node_details' = Absent
        /\ lastOp' = "set_root_node"
        /\ NavUnchanged

\* Main loop, rx_details: the details of the node with this identity.
NavDetailsArrive(id) ==
    /\ selected_node_details' = id
    /\ lastOp' = "details"
    /\ UNCHANGED <<root_node, expanded_ids, selected_index,
                   tree_scroll_offset>>
    /\ NavUnchanged

\* AppState::move_selection(delta)
NavMoveSelection(delta) ==
    LET count == VisibleCount(root_node, expanded_ids)
    IN  /\ IF count = 0
           THEN UNCHANGED <<selected_index, selected_node_details>>
           ELSE /\ selected_index' =
                       move_selection(count, selected_index, delta)
                /\ selected_node_details' = Absent
        /\ lastOp' = "move_selection"
        /\ UNCHANGED <<root_node, expanded_ids, tree_scroll_offset>>
        /\ NavUnchanged

\* AppState::update_tree_scroll(height), which the arrow-key handlers call
\* with the height of the pane.
NavUpdateTreeScroll(height) ==
    /\ tree_scroll_offset' =
           update_tree_scroll(selected_index, tree_scroll_offset, height)
    /\ lastOp' = "update_tree_scroll"
    /\ UNCHANGED <<root_node, expanded_ids, selected_index,
                   selected_node_details>>
    /\ NavUnchanged

\* Mouse wheel over the tree: AppState::scroll_tree(delta).
NavScrollTree(delta) ==
    /\ tree_scroll_offset + delta <= MaxScroll
    /\ tree_scroll_offset' =
           IF tree_scroll_offset + delta < 0 THEN 0
           ELSE tree_scroll_offset + delta
    /\ lastOp' = "scroll_tree"
    /\ UNCHANGED <<root_node, expanded_ids, selected_index,
                   selected_node_details>>
    /\ NavUnchanged

\* AppState::toggle_expand
NavToggleExpand ==
    /\ expanded_ids' = toggle_expand(root_node, expanded_ids, selected_index)
    /\ lastOp' = IF lastOp = "toggle_expand" THEN "toggle_expand, twice"
                 ELSE "toggle_expand"
    /\ UNCHANGED <<root_node, selected_index, tree_scroll_offset,
                   selected_node_details>>
    /\ NavUnchanged

\* AppState::expand_selected
NavExpandSelected ==
    /\ expanded_ids' = expand_selected(root_node, expanded_ids, selected_index)
    /\ lastOp' = "expand_selected"
    /\ UNCHANGED <<root_node, selected_index, tree_scroll_offset,
                   selected_node_details>>
    /\ NavUnchanged

\* KeyCode::Left with the focus on the inspector tree: collapse_selected,
\* and when it returns false select_parent and update_tree_scroll(height)
\* (the horizontal scroll that follows is the subject of SpecSearch).
NavLeftKey(height) ==
    LET parent == select_parent(root_node, expanded_ids, selected_index)
        found == root_node # NoRoot /\
                 find_parent_index(root_node, expanded_ids, selected_index,
                                   0, NoIndex).index # NoIndex
    IN  /\ IF collapse_selected(root_node, expanded_ids, selected_index)
           THEN /\ expanded_ids' = expanded_ids \
                       {SelectedId(root_node, expanded_ids, selected_index)}
                /\ UNCHANGED <<selected_index, tree_scroll_offset,
                               selected_node_details>>
           ELSE /\ selected_index' = parent
                /\ selected_node_details' =
                       IF found THEN Absent ELSE selected_node_details
                /\ tree_scroll_offset' =
                       update_tree_scroll(parent, tree_scroll_offset, height)
                /\ UNCHANGED expanded_ids
        /\ lastOp' = "left"
        /\ UNCHANGED root_node
        /\ NavUnchanged

\* Mouse click on a row of the inspector tree, after the draw of this pass
\* of the loop has stored the number of lines it rendered.
NavClick(row) ==
    LET index == row + tree_scroll_offset
        count == IF root_node = NoRoot THEN 0
                 ELSE Len(flatten_tree(root_node, <<0>>, expanded_ids))
    IN  /\ IF index < count
           THEN IF index = selected_index
                THEN /\ expanded_ids' = toggle_expand(root_node, expanded_ids,
                                                      selected_index)
                     /\ UNCHANGED selected_index
                ELSE /\ selected_index' = index
                     /\ UNCHANGED expanded_ids
           ELSE UNCHANGED <<expanded_ids, selected_index>>
        /\ lastOp' = "click"
        /\ UNCHANGED <<root_node, tree_scroll_offset, selected_node_details>>
        /\ NavUnchanged

\* Identities whose details may arrive.
DetailIds == {"a", "b"}

NavRefresh == \E node \in WidgetTrees : NavSetRootNode(node)
NavDetails == \E id \in DetailIds : NavDetailsArrive(id)
NavMove == \E delta \in (0 - MaxDelta)..MaxDelta : NavMoveSelection(delta)
NavViewport == \E height \in 1..MaxRows : NavUpdateTreeScroll(height)
NavWheel == \E delta \in {-1, 1} : NavScrollTree(delta)
NavLeft == \E height \in 1..MaxRows : NavLeftKey(height)
NavMouse == \E row \in 0..(MaxRows - 1) : NavClick(row)

NextNav ==
    \/ NavRefresh
    \/ NavDetails
    \/ NavMove
    \/ NavViewport
    \/ NavWheel
    \/ NavToggleExpand
    \/ NavExpandSelected
    \/ NavLeft
    \/ NavMouse

\* AppState::new: no tree yet.
InitNav ==
    /\ TreeIdle /\ ViewIdle
    /\ RpcInit /\ UnwrapIdle /\ DaemonInit /\ DebugInit
    /\ SelectIdle /\ DebounceIdle

SpecNav == InitNav /\ [][NextNav]_vars

\* C21 (as claimed): the selection is a position of the visible sequence:
\* selected_index < visible_count when the tree shows something, and 0 when
\* it shows nothing.
C21_SelectionInRange ==
    LET count == VisibleCount(root_node, expanded_ids)
    IN  IF count > 0 THEN 0 <= selected_index /\ selected_index < count
        ELSE selected_index = 0

\* C22: toggle_expand called twice in a row gives back the expansion set
\* it started from, for every tree, expansion set and selected index the
\* view-model reaches, and no call changes selected_index.
C22_ToggleTwiceRestores ==
    /\ [](toggle_expand(root_node,
                        toggle_expand(root_node, expanded_ids, selected_index),
                        selected_index) = expanded_ids)
    /\ [][NavToggleExpand =>
            /\ selected_index' = selected_index
            /\ toggle_expand(root_node', expanded_ids', selected_index')
                   = expanded_ids]_vars

\* Two calls in a row on a node below the root, which is collapsed again
\* while other nodes are expanded.
C22_Witness ==
    /\ lastOp = "toggle_expand, twice"
    /\ selected_index > 0
    /\ SelectedId(root_node, expanded_ids, selected_index) # Absent
    /\ SelectedId(root_node, expanded_ids, selected_index) \notin expanded_ids
    /\ Cardinality(expanded_ids) >= 2

RECURSIVE PositionsBelow(_, _)
\* The positions of all nodes of a tree, visible or not.
PositionsBelow(node, position) ==
    {position} \cup
    UNION {PositionsBelow(node.children[i], Append(position, i)) :
               i \in 1..Len(node.children)}

\* The positions of the nodes of `root` that carry the identity `id`.
PositionsOfId(root, id) ==
    {position \in PositionsBelow(root, <<0>>) :
        get_node_id(NodeAt(root, position)) = id}

\* The identities of the proper ancestors of the node at `position`.
AncestorIds(root, position) ==
    {get_node_id(NodeAt(root, SubSeq(position, 1, k))) :
        k \in 1..(Len(position) - 1)} \ {Absent}

\* C23 (as claimed): after set_root_node(r'), when the identity selected
\* before the call exists anywhere in r', the selected node is the node
\* with that identity and the identities of all its ancestors are in the
\* expansion set.
C23_RefreshKeepsSelection ==
    [][LET id == SelectedId(root_node, expanded_ids, selected_index)
       IN  NavRefresh /\ id # Absent /\ PositionsOfId(root_node', id) # {} =>
             /\ SelectedPosition(root_node', expanded_ids', selected_index')
                    \in PositionsOfId(root_node', id)
             /\ \A position \in PositionsOfId(root_node', id) :
                    AncestorIds(root_node', position) \subseteq expanded_ids'
      ]_vars

RECURSIVE SingleChildChain(_, _)
\* The identities of the first `n` nodes met from `node` by following
\* single-child links, up to the first node without identity.
SingleChildChain(node, n) ==
    IF n = 0 \/ get_node_id(node) = Absent THEN {}
    ELSE {get_node_id(node)} \cup
         (IF Len(node.children) = 1
          THEN SingleChildChain(node.children[1], n - 1)
          ELSE {})

\* C24 (as claimed): expand_selected inserts the identities of the selected
\* node and of the nodes below it along single-child links, five nodes at
\* most: on the head of the chain A->B->C->D->E->F it inserts A,B,C,D,E and
\* not F.
C24_ExpandDepthFive ==
    [][NavExpandSelected /\ SelectedId(root_node, expanded_ids, selected_index) # Absent =>
          expanded_ids' = expanded_ids \cup
              SingleChildChain(
                  NodeAt(root_node,
                         SelectedPosition(root_node, expanded_ids, selected_index)),
                  5)
      ]_vars

\* The node get_selected_node returns, when it returns one.
SelectedNode == NodeAt(root_node,
                       SelectedPosition(root_node, expanded_ids, selected_index))

\* C24 (amended): expand_selected inserts the identities of the selected
\* node and of the nodes below it along single-child links, six nodes at
\* most (the selected node and five more): on the head of the chain
\* A->B->C->D->E->F->G it inserts A,B,C,D,E,F and not G. Nothing else
\* changes.
C24_ExpandSixOnChain ==
    [][NavExpandSelected /\ SelectedId(root_node, expanded_ids, selected_index) # Absent =>
          /\ expanded_ids' = expanded_ids \cup SingleChildChain(SelectedNode, 6)
          /\ UNCHANGED <<root_node, selected_index>>
      ]_vars

C24_Witness ==
    /\ lastOp = "expand_selected"
    /\ root_node = ChainTree
    /\ selected_index = 0
    /\ expanded_ids = {"a", "b", "c", "d", "e", "f"}

\* set_root_node has found the identity selected before the call in the
\* tree it was given, and restores the selection.
RestoresSelection ==
    LET id == SelectedId(root_node, expanded_ids, selected_index)
    IN  /\ NavRefresh
        /\ id # Absent
        /\ get_visible_index_of_id(root_node', expanded_ids', id).found

Max(a, b) == IF a >= b THEN a ELSE b

\* C27 (as claimed): when set_root_node restores the selection at visible
\* index i, tree_scroll_offset becomes max(0, i - 3), whatever it was before.
C27_RestoreScrollsToContext ==
    [][RestoresSelection =>
          tree_scroll_offset' = Max(0, selected_index' - 3)]_vars

\* C27 (amended): when set_root_node restores the selection at visible
\* index i, tree_scroll_offset becomes i when i is less than the scroll
\* offset before the call (the restored node is the top row), and
\* max(0, i - 3) otherwise.
C27_RestoreScrollsByCase ==
    [][RestoresSelection =>
          tree_scroll_offset' =
              IF selected_index' < tree_scroll_offset THEN selected_index'
              ELSE Max(0, selected_index' - 3)]_vars

C27_Witness ==
    /\ lastOp = "set_root_node"
    /\ selected_index > 0
    /\ tree_scroll_offset = selected_index

Front(position) == SubSeq(position, 1, Len(position) - 1)

\* The nodes of the loaded tree whose parent has an identity that is not in
\* the expansion set, and that have an identity themselves.
UnderCollapsedParent ==
    {position \in PositionsBelow(root_node, <<0>>) :
        /\ Len(position) > 1
        /\ get_node_id(NodeAt(root_node, position)) # Absent
        /\ LET parent == get_node_id(NodeAt(root_node, Front(position)))
           IN  parent # Absent /\ parent \notin expanded_ids}


\* C28: a node is in the visible sequence (the lines drawn, and the nodes
\* the view-model resolves at the indices below visible_count) only if
\* every ancestor that has an identity is in the expansion set; inserting
\* the identity of a node whose parent is not expanded changes neither the
\* visible sequence nor visible_count.
C28_VisibleNeedsExpandedAncestors ==
    root_node # NoRoot =>
        LET lines == flatten_tree(root_node, <<0>>, expanded_ids)
        IN  /\ \A k \in 1..Len(lines) :
                   AncestorIds(root_node, lines[k]) \subseteq expanded_ids
            /\ \A index \in 0..(visible_count(root_node, expanded_ids) - 1) :
                   LET position == get_selected_node(root_node, expanded_ids, index)
                   IN  position # NoNode =>
                           AncestorIds(root_node, position) \subseteq expanded_ids
            /\ \A position \in UnderCollapsedParent :
                   LET with_id == expanded_ids \cup
                                      {get_node_id(NodeAt(root_node, position))}
                   IN  /\ flatten_tree(root_node, <<0>>, with_id) = lines
                       /\ visible_count(root_node, with_id) =
                              visible_count(root_node, expanded_ids)

\* The chain with "c" in the expansion set and its parent "b" collapsed:
\* two nodes are visible.
C28_Witness ==
    /\ root_node = ChainTree
    /\ {"a", "c"} \subseteq expanded_ids
    /\ "b" \notin expanded_ids
    /\ visible_count(root_node, expanded_ids) = 2
    /\ Len(flatten_tree(root_node, <<0>>, expanded_ids)) = 2

Min(a, b) == IF a <= b THEN a ELSE b

\* C29: move_selection(delta) sets selected_index to selected_index + delta
\* clamped into [0, visible_count - 1] and clears the cached details, for
\* every delta; on an empty tree it changes nothing.
C29_MoveClamps ==
    [][\A delta \in (0 - MaxDelta)..MaxDelta :
          NavMoveSelection(delta) =>
              LET count == VisibleCount(root_node, expanded_ids)
              IN  IF count = 0
                  THEN UNCHANGED <<root_node, expanded_ids, selected_index,
                                   tree_scroll_offset, selected_node_details>>
                  ELSE /\ selected_index' =
                              Max(0, Min(count - 1, selected_index + delta))
                       /\ selected_node_details' = Absent
                       /\ UNCHANGED <<root_node, expanded_ids>>
      ]_vars

\* After a move on a tree of at least three visible nodes the last node is
\* selected and no details are cached.
C29_Witness ==
    /\ lastOp = "move_selection"
    /\ VisibleCount(root_node, expanded_ids) >= 3
    /\ selected_index = VisibleCount(root_node, expanded_ids) - 1
    /\ selected_node_details = Absent

\* C30: Left arrow on the tree: when the selected node's identity is in the
\* expansion set, only that identity is removed and selected_index is
\* unchanged; otherwise the expansion set is unchanged and selected_index
\* becomes the visible index of the selected node's parent (it is unchanged
\* when the selected node is the root).
C30_LeftCollapsesOrSelectsParent ==
    [][\A height \in 1..MaxRows :
          LET position == SelectedPosition(root_node, expanded_ids, selected_index)
              id == SelectedId(root_node, expanded_ids, selected_index)
          IN  NavLeftKey(height) /\ position # NoNode =>
                  /\ root_node' = root_node
                  /\ IF id # Absent /\ id \in expanded_ids
                     THEN /\ expanded_ids' = expanded_ids \ {id}
                          /\ selected_index' = selected_index
                     ELSE /\ expanded_ids' = expanded_ids
                          /\ IF Len(position) = 1
                             THEN selected_index' = selected_index
                             ELSE get_selected_node(root_node, expanded_ids,
                                                    selected_index')
                                      = Front(position)
      ]_vars

\* After Left the selection is on an expanded node that is not the root:
\* the parent of the node that was selected.
C30_Witness ==
    /\ lastOp = "left"
    /\ selected_index > 0
    /\ SelectedId(root_node, expanded_ids, selected_index) \in expanded_ids

\* ====================================================================
\* SpecFocus: the keyboard focus (AppState::cycle_focus, app_state.rs) and
\* the branches of the key handler of main.rs that read or set it.
\* ====================================================================

\* Focus (app_state.rs:5-11).
FocusValues == {"Tree", "Details", "Logs", "Search", "IsolateSelection"}

\* Tab toggles between the tree and the details, and never reaches the logs.
CycleSkipsLogs(current, modal) ==
    IF modal THEN current
    ELSE IF current = "Tree" THEN "Details"
    ELSE IF current = "IsolateSelection" THEN "IsolateSelection"
    ELSE "Tree"

\* AppState::cycle_focus: the focus afterwards (`modal` is
\* show_isolate_selection).
cycle_focus(current, modal) ==
    IF modal THEN current
    ELSE CASE current = "Tree" -> "Details"
           [] current = "Details" -> "Logs"
           [] current = "Logs" -> "Tree"
           [] current = "Search" -> "Tree"
           [] current = "IsolateSelection" -> "IsolateSelection"

\* The variables of the isolate selection the key handler does not touch
\* (the delivery of the selection is the subject of SpecSelect).
selectBesidesModal == <<vmIsolates, selPc, heldIsolates, isolatesChan,
                        selectedChan, refreshChan, treeChan,
                        current_isolate_id, subtasks, refreshes, mainPc,
                        heldSelected, connection_status, logMatches,
                        logPulses>>

FocusUnchanged ==
    UNCHANGED <<rpcVars, unwrapVars, daemonVars, debugVars, debounceVars,
                treeVars, breakVars, selectBesidesModal,
                tree_scroll_offset, tree_horizontal_scroll,
                selected_node_details, search_results, current_match_index,
                lastOp, detailsVars>>

\* Main loop, rx_isolates: the list is stored; with more than one isolate
\* the modal opens and takes the focus.
FocusRecvIsolates(isolates) ==
    /\ available_isolates' = [isolates |-> isolates, origin |-> "connect"]
    /\ IF Len(isolates) > 1
       THEN /\ show_isolate_selection' = TRUE
            /\ focus' = "IsolateSelection"
       ELSE UNCHANGED <<show_isolate_selection, focus>>
    /\ lastKey' = "none"
    /\ UNCHANGED <<selected_isolate_index, search_query>>
    /\ FocusUnchanged

ModalKeys == {"Tab", "Up", "Down", "Enter", "/", "Esc", "x"}

\* A key while the modal is shown: Up, Down and Enter act, every other key
\* (Tab among them) falls to `_ => {}`.
FocusModalKey(key) ==
    /\ show_isolate_selection
    /\ lastKey' = key
    /\ selected_isolate_index' =
           IF key = "Up"
           THEN MovedIsolateIndex(selected_isolate_index, -1,
                                  Len(available_isolates.isolates))
           ELSE IF key = "Down"
           THEN MovedIsolateIndex(selected_isolate_index, 1,
                                  Len(available_isolates.isolates))
           ELSE selected_isolate_index
    /\ IF key = "Enter" /\
          selected_isolate_index < Len(available_isolates.isolates)
       THEN /\ show_isolate_selection' = FALSE
            /\ focus' = "Tree"
       ELSE UNCHANGED <<show_isolate_selection, focus>>
    /\ UNCHANGED <<available_isolates, search_query>>
    /\ FocusUnchanged

SearchKeys == {"Tab", "Esc", "x", "Backspace"}

\* A key while the search box has the focus: Esc leaves it, a character or
\* Backspace edits the query and searches again (no tree is loaded here:
\* perform_search leaves no results), every other key falls to `_ => {}`.
FocusSearchKey(key) ==
    /\ ~show_isolate_selection
    /\ focus = "Search"
    /\ lastKey' = key
    /\ focus' = IF key = "Esc" THEN "Tree" ELSE focus
    /\ search_query' =
           IF key = "x" /\ Len(search_query) < MaxQuery
           THEN Append(search_query, "x")
           ELSE IF key = "Backspace" /\ search_query # <<>>
           THEN SubSeq(search_query, 1, Len(search_query) - 1)
           ELSE search_query
    /\ key = "x" => Len(search_query) < MaxQuery
    /\ UNCHANGED <<available_isolates, show_isolate_selection,
                   selected_isolate_index>>
    /\ FocusUnchanged

NormalKeys == {"Tab", "/", "Esc"}

\* A key in the last branch of the handler: Tab calls cycle_focus, `/`
\* opens the search box with an empty query, Esc leaves the focus alone
\* unless it is on a search box.
FocusNormalKey(key) ==
    /\ ~show_isolate_selection
    /\ focus # "Search"
    /\ lastKey' = key
    /\ focus' = IF key = "Tab" THEN cycle_focus(focus, show_isolate_selection)
                ELSE IF key = "/" THEN "Search"
                ELSE focus
    /\ search_query' = IF key = "/" THEN <<>> ELSE search_query
    /\ UNCHANGED <<available_isolates, show_isolate_selection,
                   selected_isolate_index>>
    /\ FocusUnchanged

\* A mouse click inside the inspector tree (ignored while the modal is
\* shown): the tree takes the focus.
FocusClickTree ==
    /\ ~show_isolate_selection
    /\ focus' = "Tree"
    /\ lastKey' = "click"
    /\ UNCHANGED <<available_isolates, show_isolate_selection,
                   selected_isolate_index, search_query>>
    /\ FocusUnchanged

FocusIsolates == \E isolates \in IsolateLists : FocusRecvIsolates(isolates)
FocusModal == \E key \in ModalKeys : FocusModalKey(key)
FocusSearch == \E key \in SearchKeys : FocusSearchKey(key)
FocusNormal == \E key \in NormalKeys : FocusNormalKey(key)

NextFocus ==
    \/ FocusIsolates
    \/ FocusModal
    \/ FocusSearch
    \/ FocusNormal
    \/ FocusClickTree

InitFocus ==
    /\ ViewIdle /\ TreeIdle
    /\ RpcInit /\ UnwrapIdle /\ DaemonInit /\ DebugInit
    /\ SelectIdle /\ DebounceIdle

SpecFocus == InitFocus /\ [][NextFocus]_vars

\* The Tab key, in whichever branch of the handler it arrives.
TabKey ==
    \/ FocusModalKey("Tab")
    \/ FocusSearchKey("Tab")
    \/ FocusNormalKey("Tab")

\* C26: cycle_focus maps Tree to Details, Details to Logs and Logs to Tree;
\* while the isolate-selection modal is shown, cycle_focus and the Tab key
\* leave the focus unchanged.
C26_TabCyclesUnlessModal ==
    /\ [](show_isolate_selection =>
              cycle_focus(focus, show_isolate_selection) = focus)
    /\ [][TabKey =>
              /\ show_isolate_selection =>
                     focus' = focus /\ show_isolate_selection'
              /\ ~show_isolate_selection =>
                     /\ focus = "Tree" => focus' = "Details"
                     /\ focus = "Details" => focus' = "Logs"
                     /\ focus = "Logs" => focus' = "Tree"
      ]_vars

\* Tab has just been pressed with the modal open: the focus is still on
\* the modal.
C26_Witness ==
    /\ lastKey = "Tab"
    /\ show_isolate_selection
    /\ focus = "IsolateSelection"

\* ====================================================================
\* SpecBreak: the breakpoint set of the source viewer (key `b`, main.rs)
\* and the breakpoints the peer has installed.
\* ====================================================================

SourcePaths == {"lib/main.dart", "lib/home.dart"}
SourceLines == {1, 2}

\* format!("{}:{}", path, line), kept as the pair it is built from.
BreakpointKey(path, line) == [path |-> path, line |-> line]

\* The keys whose breakpoint id at the peer the core retains: none, the
\* response to addBreakpointWithScriptUri is logged and dropped.
KeysWithPeerId == {}

BreakUnchanged ==
    UNCHANGED <<rpcVars, unwrapVars, daemonVars, debugVars, debounceVars,
                treeVars, navVars, lastKey, selectBesidesModal,
                show_isolate_selection, selected_isolate_index, detailsVars>>

\* Main loop, rx_vm_client: the client is stored.
BreakRecvClient ==
    /\ ~vm_service_client
    /\ vm_service_client' = TRUE
    /\ UNCHANGED <<breakpoints, open_file_path, source_selected_line,
                   addRequests, peerBreakpoints, bpKeys, focus,
                   available_isolates>>
    /\ BreakUnchanged

\* Main loop, rx_isolates, with a list of one isolate (no modal opens).
BreakRecvIsolates ==
    /\ available_isolates = NoList
    /\ available_isolates' = [isolates |-> <<"isolates/1">>,
                              origin |-> "connect"]
    /\ UNCHANGED <<breakpoints, open_file_path, source_selected_line,
                   vm_service_client, addRequests, peerBreakpoints, bpKeys,
                   focus>>
    /\ BreakUnchanged

\* Activating a leaf of the file tree opens the file in the source viewer.
BreakOpenFile(path) ==
    /\ open_file_path # path
    /\ open_file_path' = path
    /\ UNCHANGED <<breakpoints, source_selected_line, vm_service_client,
                   addRequests, peerBreakpoints, bpKeys, focus,
                   available_isolates>>
    /\ BreakUnchanged

\* Mouse click on a line of the source viewer: the viewer takes the focus
\* and the line is selected.
BreakClickLine(line) ==
    /\ ~show_isolate_selection
    /\ source_selected_line # line \/ focus # "DebuggerSource"
    /\ focus' = "DebuggerSource"
    /\ source_selected_line' = line
    /\ UNCHANGED <<breakpoints, open_file_path, vm_service_client,
                   addRequests, peerBreakpoints, bpKeys, available_isolates>>
    /\ BreakUnchanged

\* Key `b` with the focus on the source viewer: the key of the selected
\* line is removed from the local set when it is there (nothing is sent);
\* else it is inserted and, with a client and an isolate, a task is spawned
\* that sends addBreakpointWithScriptUri.
BreakKeyB ==
    /\ ~show_isolate_selection
    /\ focus = "DebuggerSource"
    /\ bpKeys < MaxBpKeys
    /\ bpKeys' = bpKeys + 1
    /\ IF source_selected_line # 0 /\ open_file_path # Absent
       THEN LET bp_id == BreakpointKey(open_file_path, source_selected_line)
            IN  IF bp_id \in breakpoints
                THEN /\ breakpoints' = breakpoints \ {bp_id}
                     /\ UNCHANGED addRequests
                ELSE /\ breakpoints' = breakpoints \cup {bp_id}
                     /\ addRequests' =
                            IF /\ vm_service_client
                               /\ selected_isolate_index <
                                      Len(available_isolates.isolates)
                            THEN Append(addRequests, bp_id)
                            ELSE addRequests
       ELSE UNCHANGED <<breakpoints, addRequests>>
    /\ UNCHANGED <<open_file_path, source_selected_line, vm_service_client,
                   peerBreakpoints, focus, available_isolates>>
    /\ BreakUnchanged

\* The peer answers the oldest addBreakpointWithScriptUri: it installs the
\* breakpoint and returns it, or returns an error; the task logs either.
BreakPeerAnswers(ok) ==
    /\ addRequests # <<>>
    /\ addRequests' = Tail(addRequests)
    /\ peerBreakpoints' = IF ok THEN peerBreakpoints \cup {Head(addRequests)}
                          ELSE peerBreakpoints
    /\ UNCHANGED <<breakpoints, open_file_path, source_selected_line,
                   vm_service_client, bpKeys, focus, available_isolates>>
    /\ BreakUnchanged

BreakOpen == \E path \in SourcePaths : BreakOpenFile(path)
BreakClick == \E line \in SourceLines : BreakClickLine(line)
BreakPeer == \E ok \in BOOLEAN : BreakPeerAnswers(ok)

NextBreak ==
    \/ BreakRecvClient
    \/ BreakRecvIsolates
    \/ BreakOpen
    \/ BreakClick
    \/ BreakKeyB
    \/ BreakPeer

InitBreak ==
    /\ ViewIdle /\ TreeIdle
    /\ RpcInit /\ UnwrapIdle /\ DaemonInit /\ DebugInit
    /\ SelectIdle /\ DebounceIdle

SpecBreak == InitBreak /\ [][NextBreak]_vars

\* C25 (as claimed): once every add request has been answered, a key is in
\* the local breakpoint set if and only if the peer has a breakpoint
\* installed for that file and line, and the core knows the peer's id of
\* every breakpoint in the local set.
C25_LocalAndPeerAgree ==
    addRequests = <<>> =>
        /\ breakpoints = peerBreakpoints
        /\ breakpoints \subseteq KeysWithPeerId

\* C31: set_root_node removes no identity from the expansion set, and the
\* new root's identity, when it has one, is in the set afterwards.
C31_RefreshKeepsExpansion ==
    [][NavRefresh =>
          /\ expanded_ids \subseteq expanded_ids'
          /\ get_node_id(root_node') # Absent =>
                 get_node_id(root_node') \in expanded_ids'
      ]_vars

\* After a refresh from the chain to another tree, identities that only
\* the chain has are still expanded.
C31_Witness ==
    /\ lastOp = "set_root_node"
    /\ root_node = PlainTree
    /\ {"a", "e", "f"} \subseteq expanded_ids

\* ====================================================================
\* SpecSearch: search in the widget tree and the horizontal scroll of the
\* tree pane (app_state.rs), with the key handlers of main.rs that call
\* them.
\* ====================================================================

RECURSIVE IsSubsequence(_, _)
\* matcher.fuzzy_match(text, query).is_some(): the characters of the query
\* occur in the text in this order.
IsSubsequence(query, text) ==
    IF query = <<>> THEN TRUE
    ELSE IF text = <<>> THEN FALSE
    ELSE IF Head(query) = Head(text)
         THEN IsSubsequence(Tail(query), Tail(text))
         ELSE IsSubsequence(query, Tail(text))

RECURSIVE search_recursive(_, _)
RECURSIVE SearchChildren(_, _, _)
\* AppState::search_recursive: the identities pushed, in pre-order (no
\* node of the trees drawn has a widget_runtime_type).
search_recursive(node, query) ==
    (IF IsSubsequence(query, node.description) /\ get_node_id(node) # Absent
     THEN <<get_node_id(node)>> ELSE <<>>)
    \o SearchChildren(node.children, 1, query)
SearchChildren(children, i, query) ==
    IF i > Len(children) THEN <<>>
    ELSE search_recursive(children[i], query) \o
         SearchChildren(children, i + 1, query)

\* AppState::get_selected_depth: find_depth_at_index walks the tree as
\* find_node_at_index does and counts the levels below the root; 0 when no
\* node is at the index.
get_selected_depth(root, expanded, index) ==
    LET position == SelectedPosition(root, expanded, index)
    IN  IF position = NoNode THEN 0 ELSE Len(position) - 1

\* usize::saturating_sub
saturating_sub(a, b) == IF a >= b THEN a - b ELSE 0

\* The view after a jump or a search: what jump_to_match may change.
TreeView(expanded, index, offset, horizontal) ==
    [expanded_ids |-> expanded, selected_index |-> index,
     tree_scroll_offset |-> offset, tree_horizontal_scroll |-> horizontal]

\* AppState::jump_to_match: the view afterwards.
jump_to_match(root, view, results, match_index) ==
    IF match_index >= Len(results) THEN view
    ELSE LET id == results[match_index + 1]
             opened == expand_path_to_node(root, view.expanded_ids, id)
             r == get_visible_index_of_id(root, opened, id)
         IN  IF r.found
             THEN TreeView(opened, r.index,
                           IF r.index >= 3 THEN r.index - 3 ELSE 0,
                           saturating_sub(
                               get_selected_depth(root, opened, r.index) * 2,
                               6))
             ELSE [view EXCEPT !.expanded_ids = opened]

\* A search that does not return on an empty query.
SearchWithoutEarlyReturn(root, view, query) ==
    LET results == IF root = NoRoot THEN <<>>
                   ELSE search_recursive(root, query)
    IN  [search_results |-> results, current_match_index |-> 0,
         view |-> jump_to_match(root, view, results, 0)]

\* AppState::perform_search: results, match index and view afterwards.
perform_search(root, view, query) ==
    IF query = <<>>
    THEN [search_results |-> <<>>, current_match_index |-> 0, view |-> view]
    ELSE LET results == IF root = NoRoot THEN <<>>
                        ELSE search_recursive(root, query)
         IN  [search_results |-> results, current_match_index |-> 0,
              view |-> jump_to_match(root, view, results, 0)]

\* The scroll after an underflow of the unsigned subtraction: a debug
\* build panics, a release build wraps.
WrappedScroll == -1

\* The right-hand branch taken whenever the left-hand one is not.
EnsureWithoutRightTest(depth, scroll, viewport_width) ==
    LET start_visual_pos == depth * 2
        padding == 2
    IN  IF start_visual_pos < scroll + padding
        THEN saturating_sub(start_visual_pos, padding)
        ELSE IF start_visual_pos + padding + 10 < viewport_width
             THEN WrappedScroll
             ELSE start_visual_pos + padding + 10 - viewport_width

\* AppState::ensure_horizontal_visibility: tree_horizontal_scroll
\* afterwards.
ensure_horizontal_visibility(depth, scroll, viewport_width) ==
    LET start_visual_pos == depth * 2
        padding == 2
    IN  IF start_visual_pos < scroll + padding
        THEN saturating_sub(start_visual_pos, padding)
        ELSE IF start_visual_pos >
                    scroll + saturating_sub(viewport_width, padding)
        THEN IF start_visual_pos + padding + 10 < viewport_width
             THEN WrappedScroll
             ELSE start_visual_pos + padding + 10 - viewport_width
        ELSE scroll

CurrentView == TreeView(expanded_ids, selected_index, tree_scroll_offset,
                        tree_horizontal_scroll)

\* The view becomes `view`.
ViewBecomes(view) ==
    /\ expanded_ids' = view.expanded_ids
    /\ selected_index' = view.selected_index
    /\ tree_scroll_offset' = view.tree_scroll_offset
    /\ tree_horizontal_scroll' = view.tree_horizontal_scroll

SearchUnchanged ==
    UNCHANGED <<root_node, treeLines, treeCount, treeNode,
                selected_node_details, lastKey, breakVars, nonViewVars>>

\* Key `/` outside the search box: the box takes the focus and the query
\* is cleared (the results are not).
SearchKeySlash ==
    /\ focus # "Search"
    /\ focus' = "Search"
    /\ search_query' = <<>>
    /\ lastOp' = "/"
    /\ UNCHANGED <<expanded_ids, selected_index, tree_scroll_offset,
                   tree_horizontal_scroll, search_results,
                   current_match_index>>
    /\ SearchUnchanged

\* Esc in the search box: the tree takes the focus.
SearchKeyEsc ==
    /\ focus = "Search"
    /\ focus' = "Tree"
    /\ lastOp' = "Esc"
    /\ UNCHANGED <<expanded_ids, selected_index, tree_scroll_offset,
                   tree_horizontal_scroll, search_query, search_results,
                   current_match_index>>
    /\ SearchUnchanged

\* The query becomes `query` and perform_search runs.
SearchEdit(query) ==
    LET r == perform_search(root_node, CurrentView, query)
    IN  /\ search_query' = query
        /\ search_results' = r.search_results
        /\ current_match_index' = r.current_match_index
        /\ ViewBecomes(r.view)

\* A character typed in the search box.
SearchKeyChar(c) ==
    /\ focus = "Search"
    /\ Len(search_query) < MaxQuery
    /\ SearchEdit(Append(search_query, c))
    /\ lastOp' = "perform_search"
    /\ UNCHANGED focus
    /\ SearchUnchanged

\* Backspace in the search box: String::pop, then perform_search.
SearchKeyBackspace ==
    /\ focus = "Search"
    /\ SearchEdit(IF search_query = <<>> THEN <<>>
                  ELSE SubSeq(search_query, 1, Len(search_query) - 1))
    /\ lastOp' = "perform_search"
    /\ UNCHANGED focus
    /\ SearchUnchanged

\* AppState::next_match (Enter in the search box).
SearchNextMatch ==
    /\ focus = "Search"
    /\ IF search_results = <<>>
       THEN UNCHANGED <<expanded_ids, selected_index, tree_scroll_offset,
                        tree_horizontal_scroll, current_match_index>>
       ELSE LET next == (current_match_index + 1) % Len(search_results)
            IN  /\ current_match_index' = next
                /\ ViewBecomes(jump_to_match(root_node, CurrentView,
                                             search_results, next))
    /\ lastOp' = "next_match"
    /\ UNCHANGED <<focus, search_query, search_results>>
    /\ SearchUnchanged

\* AppState::prev_match (Shift+Enter in the search box).
SearchPrevMatch ==
    /\ focus = "Search"
    /\ IF search_results = <<>>
       THEN UNCHANGED <<expanded_ids, selected_index, tree_scroll_offset,
                        tree_horizontal_scroll, current_match_index>>
       ELSE LET prev == IF current_match_index = 0
                        THEN Len(search_results) - 1
                        ELSE current_match_index - 1
            IN  /\ current_match_index' = prev
                /\ ViewBecomes(jump_to_match(root_node, CurrentView,
                                             search_results, prev))
    /\ lastOp' = "prev_match"
    /\ UNCHANGED <<focus, search_query, search_results>>
    /\ SearchUnchanged

\* Up or Down with the focus on the inspector tree: move_selection(delta),
\* update_tree_scroll(height), ensure_horizontal_visibility(width).
SearchArrowKey(delta, height, viewport_width) ==
    LET count == VisibleCount(root_node, expanded_ids)
        index == IF count = 0 THEN selected_index
                 ELSE move_selection(count, selected_index, delta)
        before == tree_horizontal_scroll
        after == ensure_horizontal_visibility(
                     get_selected_depth(root_node, expanded_ids, index),
                     before, viewport_width)
    IN  /\ focus = "Tree"
        /\ selected_index' = index
        /\ tree_scroll_offset' =
               update_tree_scroll(index, tree_scroll_offset, height)
        /\ tree_horizontal_scroll' = after
        /\ lastOp' = IF after = before THEN "arrow"
                     ELSE IF after > before \/ after = WrappedScroll
                     THEN "arrow, scrolled right"
                     ELSE "arrow, scrolled left"
        /\ UNCHANGED <<focus, expanded_ids, search_query, search_results,
                       current_match_index>>
        /\ SearchUnchanged

\* Shift+Left or Shift+Right on the tree: scroll_tree_horizontal(delta).
SearchShiftArrow(delta) ==
    /\ focus = "Tree"
    /\ tree_horizontal_scroll + delta <= MaxHScroll
    /\ tree_horizontal_scroll' =
           IF tree_horizontal_scroll + delta < 0 THEN 0
           ELSE tree_horizontal_scroll + delta
    /\ lastOp' = "scroll_tree_horizontal"
    /\ UNCHANGED <<focus, expanded_ids, selected_index, tree_scroll_offset,
                   search_query, search_results, current_match_index>>
    /\ SearchUnchanged

QueryChars == {"t", "b"}

SearchChar == \E c \in QueryChars : SearchKeyChar(c)
SearchArrow ==
    \E delta \in {-1, 1}, viewport_width \in 0..MaxWidth :
        SearchArrowKey(delta, MaxRows, viewport_width)
SearchShift == \E delta \in {-1, 1} : SearchShiftArrow(delta)

NextSearch ==
    \/ SearchKeySlash
    \/ SearchKeyEsc
    \/ SearchChar
    \/ SearchKeyBackspace
    \/ SearchNextMatch
    \/ SearchPrevMatch
    \/ SearchArrow
    \/ SearchShift

\* A tree has arrived (set_root_node on a fresh view-model): its root is
\* expanded and selected.
InitSearch ==
    /\ root_node \in WidgetTrees
    /\ expanded_ids = {get_node_id(root_node)} \ {Absent}
    /\ selected_index = 0
    /\ TreeNotViewed
    /\ ViewIdle
    /\ RpcInit /\ UnwrapIdle /\ DaemonInit /\ DebugInit
    /\ SelectIdle /\ DebounceIdle

SpecSearch == InitSearch /\ [][NextSearch]_vars

\* C32: perform_search with an empty query leaves search_results empty and
\* changes neither selected_index, the expansion set nor the scroll
\* offsets; next_match and prev_match on empty results change nothing.
C32_EmptySearchMovesNothing ==
    [][/\ SearchKeyBackspace /\ search_query' = <<>> =>
              /\ search_results' = <<>>
              /\ UNCHANGED <<selected_index, expanded_ids, tree_scroll_offset,
                             tree_horizontal_scroll, root_node>>
       /\ (SearchNextMatch \/ SearchPrevMatch) /\ search_results = <<>> =>
              UNCHANGED <<selected_index, expanded_ids, tree_scroll_offset,
                          tree_horizontal_scroll, root_node, search_results,
                          current_match_index, search_query>>
      ]_vars

\* The query has just been emptied, after a search that had moved the
\* selection: the selection is where that search left it.
C32_Witness ==
    /\ lastOp = "perform_search"
    /\ search_query = <<>>
    /\ search_results = <<>>
    /\ selected_index > 0

\* A step that jumps to a match: a search with results, or next_match or
\* prev_match on results.
JumpsToMatch ==
    /\ SearchChar \/ SearchKeyBackspace \/ SearchNextMatch \/ SearchPrevMatch
    /\ search_results' # <<>>

\* C33 (as claimed): after a jump to a match whose identity exists in the
\* tree, the selected node is the node with that identity, every ancestor
\* identity is in the expansion set, tree_scroll_offset is
\* max(0, index - 3) and tree_horizontal_scroll is max(0, 2 * depth - 6).
C33_JumpSelectsMatch ==
    [][LET id == search_results'[current_match_index' + 1]
       IN  JumpsToMatch /\ PositionsOfId(root_node, id) # {} =>
             \E position \in PositionsOfId(root_node, id) :
                /\ SelectedPosition(root_node', expanded_ids', selected_index')
                       = position
                /\ AncestorIds(root_node, position) \subseteq expanded_ids'
                /\ tree_scroll_offset' = Max(0, selected_index' - 3)
                /\ tree_horizontal_scroll' =
                       Max(0, 2 * (Len(position) - 1) - 6)
      ]_vars

\* C34 (as claimed): for some node of the tree as the selected one, some
\* horizontal scroll and some viewport width, ensure_horizontal_visibility
\* evaluates `start + padding + 10 - viewport_width` with
\* start + 12 < viewport_width.
C34_CanUnderflow ==
    \E position \in PositionsBelow(root_node, <<0>>),
       scroll \in 0..(2 * MaxWidth), viewport_width \in 0..MaxWidth :
        ensure_horizontal_visibility(Len(position) - 1, scroll,
                                     viewport_width) = WrappedScroll

\* C34 (amended): ensure_horizontal_visibility never evaluates
\* `start + padding + 10 - viewport_width` with start + 12 < viewport_width:
\* whatever node is selected and however far the tree is scrolled, no
\* viewport width makes the unsigned subtraction underflow.
C34_NeverUnderflows ==
    /\ tree_horizontal_scroll # WrappedScroll
    /\ \A viewport_width \in 0..MaxWidth :
           ensure_horizontal_visibility(
               get_selected_depth(root_node, expanded_ids, selected_index),
               tree_horizontal_scroll, viewport_width) # WrappedScroll

\* An arrow key has just scrolled the tree to the right, onto a node three
\* levels or more below the root.
C34_Witness ==
    /\ lastOp = "arrow, scrolled right"
    /\ get_selected_depth(root_node, expanded_ids, selected_index) >= 3
    /\ tree_horizontal_scroll > 0

\* ====================================================================
\* The event consumer's own calls
\* ====================================================================
\*
\* SpecEventLoop couples the transport to its one event consumer, the VM
\* service task of main.rs: every call is made by that task, which awaits
\* its answer before it receives the next event. Call 1 stands for the
\* calls made before the event loop starts (streamListen, getVM), the later
\* ones for getStack. The send on tx_debug_event that follows getStack is
\* the subject of SpecDebug and left out here.

\* The task awaits the oneshot of a call.
ConsumerAwaitsCall == Outstanding # {}

\* The first call not yet made.
FirstNewCall == CHOOSE c \in Calls :
                    /\ callState[c].st = "new"
                    /\ \A d \in Calls : callState[d].st = "new" => c <= d

\* client.stream_listen / client.get_vm before the loop.
EventLoopStartupCall == send_request(1)

\* rx_event.recv() in the event loop, and for an event of the pause family
\* that carries an isolate id the getStack call made while handling it.
EventLoopTake ==
    /\ callState[1].st \in {"ok", "err"}
    /\ ~ConsumerAwaitsCall
    /\ eventRxOpen
    /\ eventChan # <<>>
    /\ received' = Append(received, Head(eventChan))
    /\ eventChan' = Tail(eventChan)
    /\ IF Head(eventChan).event_kind \in PauseFamily
          /\ Head(eventChan).isolate_id # Absent
       THEN /\ \E c \in Calls : callState[c].st = "new"
            /\ Len(reqChan) < ReqChanCap
            /\ callState' = [callState EXCEPT ![FirstNewCall] = WaitingCall]
            /\ reqChan' = Append(reqChan, FirstNewCall)
       ELSE UNCHANGED <<callState, reqChan>>
    /\ UNCHANGED <<request_id, pending_requests, driverPc, heldEvent,
                   eventRxOpen, clientsOpen, wsEnded, framesRead, sentIds,
                   idOf, deliveries, answerFrame, notifyRead, sockEvent>>
    /\ UNCHANGED nonRpcVars

NextEventLoop ==
    \/ EventLoopStartupCall
    \/ EventLoopTake
    \/ RpcRequest
    \/ RpcResponse
    \/ RpcNotify
    \/ DriverUnpark

SpecEventLoop == InitRpc /\ [][NextEventLoop]_vars

\* C35: the driver is never parked in tx_event.send on a full event channel
\* while the event consumer awaits the answer of a call it made (before the
\* event loop or while handling an event), so that call completes once the
\* peer has answered.
C35_DriverNeverParkedOnWaitingConsumer ==
    ~(/\ driverPc = "sendEvent"
      /\ eventRxOpen
      /\ Len(eventChan) >= EventCap
      /\ ConsumerAwaitsCall)

\* ====================================================================
\* Main loop and VM task waiting on each other
\* ====================================================================
\*
\* SpecHandshake is the isolate selection of SpecSelect with enough refresh
\* pulses for both capacity-1 channels between the main loop and the VM
\* task to be full at once; the log pump, the arrows and the quit, which
\* block nowhere, are left out.

HandshakeRefresh ==
    \E result \in GetVmResults : OrchRefreshWithin(result, MaxHandshakeRefresh)

NextHandshake ==
    \/ SelectTake
    \/ HandshakeRefresh
    \/ OrchIsolatesUnpark
    \/ SelectPoll
    \/ SelectFetch
    \/ SelectSubtaskUnpark
    \/ MainRecvTree
    \/ MainRecvIsolates
    \/ MainSelectedUnpark
    \/ MainIsolateEnter
    \/ MainRefreshKey

SpecHandshake == InitSelect /\ [][NextHandshake]_vars

\* The main loop is inside tx_selected_isolate.send(..).await with the
\* selection channel full.
MainBlockedOnSelection ==
    mainPc = "sendSelected" /\ Len(selectedChan) >= SelectedCap

\* The VM task is inside tx_isolates.send(..).await with the isolate-list
\* channel full.
OrchBlockedOnIsolates ==
    selPc = "sendIsolates" /\ Len(isolatesChan) >= IsolatesCap

\* C36: in no reachable state is the main loop blocked sending a selection
\* on the full selection channel while the VM task is blocked sending on a
\* full channel that only the main loop drains.
C36_NoMutualWait ==
    ~(MainBlockedOnSelection /\ OrchBlockedOnIsolates)

\* --------------------------------------------------------------------
\* Claims about the isolate list of the view
\* --------------------------------------------------------------------

\* C38: whenever available_isolates is non-empty, selected_isolate_index is
\* the index of one of its entries, after any sequence of list publications
\* and moves of the highlight in the modal.
C38_IsolateIndexInRange ==
    Len(available_isolates.isolates) > 0 =>
        selected_isolate_index < Len(available_isolates.isolates)

\* ====================================================================
\* Subtasks of successive selections
\* ====================================================================
\*
\* SpecRace is the isolate selection of SpecSelect with room for a second
\* poll-then-fetch subtask and one refresh, which offers the list again
\* after the first selection; the log pump and the quit are left out.

RaceSubtasks == 1..MaxRaceSubtasks

RaceRefresh == \E result \in GetVmResults : OrchRefreshWithin(result, 1)
RacePoll ==
    \E s \in RaceSubtasks : \E r \in GetIsolateResults : SubtaskPoll(s, r)
RaceFetch == \E s \in RaceSubtasks : \E ok \in BOOLEAN : SubtaskFetch(s, ok)
RaceSubtaskUnpark == \E s \in RaceSubtasks : SubtaskUnpark(s)

NextRace ==
    \/ SelectTake
    \/ RaceRefresh
    \/ OrchIsolatesUnpark
    \/ RacePoll
    \/ RaceFetch
    \/ RaceSubtaskUnpark
    \/ MainRecvTree
    \/ MainRecvIsolates
    \/ MainSelectedUnpark
    \/ SelectArrow
    \/ MainIsolateEnter
    \/ MainRefreshKey

InitRace ==
    /\ \E l \in IsolateLists \ {<<>>} :
          SelectStartSlots(l, "select",
                           <<[isolates |-> l, origin |-> "connect"]>>,
                           MaxRaceSubtasks)
    /\ RpcInit /\ UnwrapIdle /\ DaemonInit /\ DebugInit
    /\ DebounceIdle /\ TreeIdle /\ ViewIdle

SpecRace == InitRace /\ [][NextRace]_vars

\* Subtask s completes its closing send in this step: its tree or the list
\* it offers again enters the channel to the main loop.
Publishes(s) == PastPolling(s) /\ subtasks'[s].pc = "done"

\* Slots are filled in the order of the selections: the subtask in a later
\* slot belongs to a later selection.
LaterHasPublished(s) ==
    \E t \in DOMAIN subtasks : t > s /\ subtasks[t].pc = "done"

\* C39: a subtask started for an earlier selection never publishes its tree,
\* nor offers the isolate list again, after the subtask of a later selection
\* has published; so the tree shown last is that of the latest selection.
C39_EarlierNeverPublishesLater ==
    [][\A s \in DOMAIN subtasks : Publishes(s) => ~LaterHasPublished(s)]_vars

\* --------------------------------------------------------------------
\* Claims about refresh pulses
\* --------------------------------------------------------------------

\* The main loop makes a refresh pulse in this step: F5 or the Refresh
\* button, or a log entry that reports a reload.
RefreshPulseMade ==
    \/ MainRefreshKey
    \/ \E entry \in LogEntries : IsReloadEntry(entry) /\ MainLogEntry(entry)

\* C40: once the connection is established every refresh pulse leads to a
\* getVM call, also when the first getVM failed or listed no isolates: after
\* the step that makes the pulse, a pulse waits in the refresh channel for
\* the VM task, whose next turn calls getVM.
C40_PulseReachesVmTask ==
    [][RefreshPulseMade => refreshChan' # <<>>]_vars

\* ====================================================================
\* Details of the selected node
\* ====================================================================
\*
\* SpecDetails follows a details request from the arrow key that sends it,
\* through the VM task's rx_details_request branch, to the main loop's
\* rx_details step.  The tree of isolates/1 is on screen.

\* The VM task's variables apart from its position, and the main loop's
\* part of the isolate selection.
selectBesidesPc == <<vmIsolates, heldIsolates, isolatesChan, selectedChan,
                     refreshChan, treeChan, current_isolate_id, subtasks,
                     refreshes, available_isolates, show_isolate_selection,
                     selected_isolate_index, mainPc, heldSelected,
                     connection_status, logMatches, logPulses>>

DetailsUnchanged ==
    UNCHANGED <<rpcVars, unwrapVars, daemonVars, debugVars, debounceVars,
                selectBesidesPc, root_node, expanded_ids, treeLines,
                treeCount, treeNode, search_query, search_results,
                current_match_index, focusVars, breakVars>>

\* tx_details_request.try_send(id): buffered when there is room, dropped
\* otherwise.
DetailsRequestTrySend(id) ==
    detailsReqChan' = IF Len(detailsReqChan) < DetailsReqCap
                      THEN Append(detailsReqChan, id) ELSE detailsReqChan

\* Up or Down with the focus on the inspector tree: move_selection(delta),
\* update_tree_scroll(height), ensure_horizontal_visibility(width), and the
\* details request for the node now selected, if it has an identity.
DetailsArrowKey(delta, height, viewport_width) ==
    LET count == VisibleCount(root_node, expanded_ids)
        index == IF count = 0 THEN selected_index
                 ELSE move_selection(count, selected_index, delta)
        id == SelectedId(root_node, expanded_ids, index)
    IN  /\ mainPc = "loop"
        /\ focus = "Tree"
        /\ selected_index' = index
        /\ selected_node_details' =
               IF count = 0 THEN selected_node_details ELSE Absent
        /\ tree_scroll_offset' =
               update_tree_scroll(index, tree_scroll_offset, height)
        /\ tree_horizontal_scroll' =
               ensure_horizontal_visibility(
                   get_selected_depth(root_node, expanded_ids, index),
                   tree_horizontal_scroll, viewport_width)
        /\ IF id # Absent
           THEN DetailsRequestTrySend(id)
           ELSE UNCHANGED detailsReqChan
        /\ lastOp' = "arrow"
        /\ UNCHANGED <<selPc, detailsChan, heldDetails>>
        /\ DetailsUnchanged

\* tx_details.send(details).await of the VM task: buffered, or the task
\* parks.
DetailsSend(id) ==
    IF Len(detailsChan) < DetailsCap
    THEN /\ selPc' = "select"
         /\ heldDetails' = Absent
         /\ detailsChan' = Append(detailsChan, id)
    ELSE /\ selPc' = "sendDetails"
         /\ heldDetails' = id
         /\ UNCHANGED detailsChan

\* select! branch rx_details_request: get_details_subtree for the id, in
\* the current isolate; `ok` is the outcome of the call.
DetailsOrchTake(ok) ==
    /\ selPc = "select"
    /\ detailsReqChan # <<>>
    /\ detailsReqChan' = Tail(detailsReqChan)
    /\ IF current_isolate_id # Absent /\ ok
       THEN DetailsSend(Head(detailsReqChan))
       ELSE UNCHANGED <<selPc, detailsChan, heldDetails>>
    /\ UNCHANGED <<selected_index, selected_node_details, tree_scroll_offset,
                   tree_horizontal_scroll, lastOp>>
    /\ DetailsUnchanged

\* The VM task's parked send completes once the main loop has made room.
DetailsOrchUnpark ==
    /\ selPc = "sendDetails"
    /\ Len(detailsChan) < DetailsCap
    /\ DetailsSend(heldDetails)
    /\ UNCHANGED <<detailsReqChan, selected_index, selected_node_details,
                   tree_scroll_offset, tree_horizontal_scroll, lastOp>>
    /\ DetailsUnchanged

\* rx_details.try_recv(): selected_node_details = Some(details).
DetailsMainRecv ==
    /\ mainPc = "loop"
    /\ detailsChan # <<>>
    /\ selected_node_details' = Head(detailsChan)
    /\ detailsChan' = Tail(detailsChan)
    /\ lastOp' = "details"
    /\ UNCHANGED <<selPc, detailsReqChan, heldDetails, selected_index,
                   tree_scroll_offset, tree_horizontal_scroll>>
    /\ DetailsUnchanged

DetailsArrow ==
    \E delta \in {-1, 1} : DetailsArrowKey(delta, MaxRows, MaxWidth)
DetailsTake == \E ok \in BOOLEAN : DetailsOrchTake(ok)

NextDetails ==
    \/ DetailsArrow
    \/ DetailsTake
    \/ DetailsOrchUnpark
    \/ DetailsMainRecv

\* The tree of isolates/1, the only isolate, has been fetched and is shown,
\* its root expanded and selected.
InitDetails ==
    /\ root_node \in WidgetTrees
    /\ expanded_ids = {get_node_id(root_node)} \ {Absent}
    /\ selected_index = 0
    /\ TreeNotViewed
    /\ ViewIdle
    /\ vmIsolates = <<"isolates/1">>
    /\ selPc = "select"
    /\ heldIsolates = NoList
    /\ isolatesChan = <<>>
    /\ selectedChan = <<>>
    /\ refreshChan = <<>>
    /\ treeChan = <<>>
    /\ current_isolate_id = "isolates/1"
    /\ subtasks = [s \in 1..MaxSubtasks |-> DoneSubtask]
    /\ refreshes = 0
    /\ available_isolates = [isolates |-> <<"isolates/1">>, origin |-> "connect"]
    /\ show_isolate_selection = FALSE
    /\ selected_isolate_index = 0
    /\ mainPc = "loop"
    /\ heldSelected = NoSelection
    /\ connection_status = "Connected"
    /\ logMatches = 0
    /\ logPulses = 0
    /\ RpcInit /\ UnwrapIdle /\ DaemonInit /\ DebugInit /\ DebounceIdle

SpecDetails == InitDetails /\ [][NextDetails]_vars

\* C37: whenever selected_node_details is present, it is the details
\* subtree of the node selected in the tree; the answer to a request made
\* for a node that is no longer selected is not shown for the new selection.
C37_DetailsOfSelectedNode ==
    selected_node_details # Absent =>
        selected_node_details =
            SelectedId(root_node, expanded_ids, selected_index)

====
